---------------------------- MODULE Spec2Model ----------------------------
(***************************************************************************)
(* Model of the merge engine of cn_cdc_crawl: merge_to_main_data           *)
(* (src/src/main_pipeline.py) and merge_csv_to_main                        *)
(* (src/airflow/dags/cdc_data_update_dag.py), together with the loops of   *)
(* main() and organize_and_merge_data() that call them once per document.  *)
(*                                                                         *)
(* A table is a sequence of records.  A date is a day number; NULL stands  *)
(* for an empty CSV cell (NaN after read_csv).  A pathogen name is a       *)
(* number whose order is the code-point order of the name:                 *)
(*   1 = "新型冠状病毒" (matches the coronavirus pattern)                  *)
(*   2 = "流感病毒", 3 = "肺炎支原体", ... (do not match)                  *)
(* Percentages are in tenths of a percent (62 = 6.2).                      *)
(*                                                                         *)
(* The later sections model the extractors that feed the merge, each with  *)
(* a specification of its own: the batch runs of main() of                 *)
(* src/extract_surveillance_data.py and src/extract_data_from_md.py        *)
(* (SpecBatch), the reading of one document (SpecPeriod, SpecRows), the    *)
(* column resolvers (SpecCols), the table selection (SpecTable) and the    *)
(* header normalizers (SpecHead); then the stages of one URL in main() of  *)
(* main_pipeline.py (SpecStages), a run of the Airflow DAG (SpecDag) and   *)
(* the concurrent renders of save_web_to_pdf.py (SpecRender).              *)
(***************************************************************************)
EXTENDS Integers, Sequences, FiniteSets, TLC

\* ---------------------------------------------------------------- bounds
\* reference_date ranges over NULL and the days 1..MaxDate
MaxDate == 2
\* rows in one batch CSV (new_csv)
MaxBatch == 2
\* documents (URLs / CSV files) handled by one run, one merge each
MaxUrls == 2

NULL == 0
\* NaT, the value pd.to_datetime(errors='coerce') gives a missing date
NaT == -1

Procs == {1, 2}
Impls == {"pipeline", "dag"}

\* the periods a document can resolve to, as <<reference_date, target_end_date>>:
\* nothing matched; a week's Monday and Sunday; a reference date alone
Periods == { <<NULL, NULL>>, <<1, NULL>> } \cup { <<d, d + 6>> : d \in 1 .. MaxDate }
Pathogens == {1, 2}

\* the natural keys a row of a batch can have
RowKeys == { <<q[1], q[2], p>> : q \in Periods, p \in Pathogens }

\* row i of document doc: the week label is the document's, and the readings
\* are its own (no two rows of a run report the same numbers)
Row(k, doc, i) ==
  [reference_date |-> k[1], target_end_date |-> k[2], report_week |-> doc,
   pathogen |-> k[3], ili_percent |-> 10 * doc + i,
   sari_percent |-> IF i = 1 THEN NULL ELSE 10 * doc + i + 1]

\* the batches the CSV of document doc can hold: at least one row, in any
\* order, the same key possibly twice
BatchesOf(doc, n) ==
  { [i \in 1 .. Len(ks) |-> Row(ks[i], doc, i)] :
      ks \in UNION { [1 .. m -> RowKeys] : m \in 1 .. n } }

\* ------------------------------------------------------- pure functions
\* subset=['reference_date', 'target_end_date', 'pathogen']
Key(r) == <<r.reference_date, r.target_end_date, r.pathogen>>

Keys(s) == { Key(s[i]) : i \in 1 .. Len(s) }

\* pd.concat([a, b], ignore_index=True)
concat(a, b) == a \o b

\* drop_duplicates with keep='last' in place of keep='first': a row stays iff
\* no later row has its key
drop_duplicates_keep_last(s) ==
  LET F[i \in 0 .. Len(s)] ==
        IF i = 0 THEN <<>>
        ELSE IF \E j \in (Len(s) - i + 2) .. Len(s) : Key(s[j]) = Key(s[Len(s) - i + 1])
             THEN F[i - 1]
             ELSE <<s[Len(s) - i + 1]>> \o F[i - 1]
  IN F[Len(s)]

\* DataFrame.drop_duplicates(subset=key, keep='first'): a row stays iff no
\* earlier row has its key (NaN keys compare equal)
drop_duplicates(s) ==
  LET F[i \in 0 .. Len(s)] ==
        IF i = 0 THEN <<>>
        ELSE IF \E j \in 1 .. (i - 1) : Key(s[j]) = Key(s[i]) THEN F[i - 1]
             ELSE Append(F[i - 1], s[i])
  IN F[Len(s)]

\* pd.to_datetime(reference_date, errors='coerce')
to_datetime(d) == IF d = NULL THEN NaT ELSE d

\* descending on _sort_date with na_position='last': a sorts strictly
\* before b on the date column
DateBefore(a, b) ==
  LET x == to_datetime(a.reference_date)
      y == to_datetime(b.reference_date)
  IN  IF x = NaT THEN FALSE
      ELSE IF y = NaT THEN TRUE
      ELSE x > y

\* the row order with ascending=[True, True] in place of [False, True]
RowBefore_ascending(a, b) ==
  LET x == to_datetime(a.reference_date)
      y == to_datetime(b.reference_date)
  IN  IF x = y THEN a.pathogen < b.pathogen
      ELSE IF x = NaT THEN FALSE
      ELSE IF y = NaT THEN TRUE
      ELSE x < y

\* ['_sort_date', 'pathogen'], ascending=[False, True]
RowBefore(a, b) ==
  \/ DateBefore(a, b)
  \/ /\ ~DateBefore(b, a)
     /\ a.pathogen < b.pathogen

InsertAt(s, i, r) == SubSeq(s, 1, i - 1) \o <<r>> \o SubSeq(s, i, Len(s))

\* sort_values on two columns is a stable lexsort: each row goes after the
\* rows it does not strictly precede
sort_values(s) ==
  LET F[i \in 0 .. Len(s)] ==
        IF i = 0 THEN <<>>
        ELSE LET t == F[i - 1]
                 r == s[i]
                 before == { j \in 1 .. Len(t) : RowBefore(r, t[j]) }
                 pos == IF before = {} THEN Len(t) + 1
                        ELSE CHOOSE j \in before : \A k \in before : j <= k
             IN  InsertAt(t, pos, r)
  IN F[Len(s)]

\* sort_values('_sort_date', ascending=False) on one column uses the default
\* kind='quicksort', which is not stable: every order of the rows that is
\* descending on the date (NaT last) is a possible result
RECURSIVE sort_values_date(_)
sort_values_date(s) ==
  IF s = <<>> THEN { <<>> }
  ELSE LET r == Head(s)
       IN  UNION { { InsertAt(t, i, r) :
                       i \in { i \in 1 .. (Len(t) + 1) :
                                 /\ \A j \in 1 .. (i - 1) : ~DateBefore(r, t[j])
                                 /\ \A j \in i .. Len(t) : ~DateBefore(t[j], r) } } :
                   t \in sort_values_date(Tail(s)) }

\* pathogen.str.contains('新型冠状病毒', na=False)
str_contains(p) == p = 1

covid_filter(s) == SelectSeq(s, LAMBDA r : str_contains(r.pathogen))

\* ------------------------------------------------------------- files
Absent == [kind |-> "absent", rows |-> <<>>]
\* a file opened for writing and not yet written: zero bytes, no header
Zero == [kind |-> "zero", rows |-> <<>>]
Table(s) == [kind |-> "table", rows |-> s]

\* os.path.exists / Path.exists
exists(f) == f.kind # "absent"


\* ------------------------------------------------------------- state
VARIABLES
  impl,               \* "pipeline": main() + merge_to_main_data; "dag": organize_and_merge_data + merge_csv_to_main
  all_csv,            \* the file at all_csv / all_csv_path (HistoricalTable)
  covid_csv,          \* the file at covid_csv / covid_csv_path (CovidTable)
  pc,                 \* pc[p]: where run p is
  urls_left,          \* documents run p still has to handle
  new_csv,            \* the batch file of the document being merged
  new_df,             \* the batch read from new_csv
  combined_df,        \* the table about to be written to all_csv
  combined_covid_df,  \* the table about to be written to covid_csv
  result,             \* whether the merge invocation returned normally (True / no exception)
  outcome,            \* how run p ended: exit status 0 / task success, or a failure
  pre_all,            \* history variable: all_csv when the invocation began
  pre_covid,          \* history variable: covid_csv when the invocation began
  any_failed          \* history variable: some merge invocation of run p failed

\* the extractors (extract_surveillance_data.py, extract_data_from_md.py)
VARIABLES
  entry,              \* "surveillance": extract_surveillance_data.py; "md": src/extract_data_from_md.py
  futures,            \* futures[d]: what the task of document d returns, or that it raises
  pending,            \* the futures as_completed has not yielded yet
  all_results,        \* all_results / all_rows: the records collected so far
  output_csv,         \* the file at args.output / args.out
  batch_pc,           \* where the batch main() is
  content,            \* the text of the document being processed, and its file name
  df,                 \* the table found in the document
  week_info,          \* what the period resolver returned
  pathogen_data,      \* what the row flattener returned
  doc_results,        \* what process_surveillance_file / process_one returned
  doc_pc,             \* where the processing of the document is
  cols,               \* the column labels of a table
  picked,             \* the value column a column resolver picked for a family
  candidates,         \* the candidate tables of pick_table1, in the order they were appended
  cand_i,             \* the candidates the loop of pick_table1 has scored
  best_df,            \* best_df: index of the best candidate so far
  best_score,         \* best_score
  raw_df,             \* the table handed to a header normalizer
  norm_df,            \* the table the header normalizer returned
  skip_download,      \* args.skip_download
  stage,              \* where the loop body of main() is for the current URL
  temp,               \* pdf_file, md_file and csv_file of the current URL in the temporary directories
  target,             \* what the current URL has in its target directory
  events,             \* history variable, the stages of the current URL that took effect and the commands that failed
  ti,                 \* ti[t], the state of task t in the DAG run
  xcom,               \* the values pushed to XCom by fetch_new_links and check_new_links
  fetched_links,      \* what the crawl of the site returns in this run
  history_file,       \* the file at HISTORY_URL_FILE
  url_file,           \* the file at URL_FILE
  tmp,                \* the links that have a PDF, a Markdown file and a CSV under update/tmp
  merged,             \* history variable, the links whose CSV was merged into the historical table in this run
  order,              \* history variable, the tasks in the order their callables ran
  pre_history,        \* history variable, history_file when the run began
  render_urls,        \* save_web_to_pdf: the URL each render_one task was created for
  sem,                \* the permits left in the semaphore
  render_pc,          \* where each render_one task stands
  pdf_path,           \* the path each task got from unique_pdf_path
  out_dir,            \* the PDF files of the output directory, each with the task that wrote it (0: none of this run)
  existed,            \* the PDF files that were there before the run
  log                 \* what each task printed, OK or FAIL

batchvars == <<futures, pending, all_results, output_csv, batch_pc>>
docvars == <<content, df, week_info, pathogen_data, doc_results, doc_pc>>
colvars == <<cols, picked>>
tablevars == <<candidates, cand_i, best_df, best_score>>
headvars == <<raw_df, norm_df>>
stagevars == <<skip_download, stage, temp, target, events>>
dagvars == <<ti, xcom, fetched_links, history_file, url_file, tmp, merged, order, pre_history>>
rendervars == <<render_urls, sem, render_pc, pdf_path, out_dir, existed, log>>
rest == <<headvars, stagevars, dagvars, rendervars>>
extraction == <<entry, batchvars, docvars, colvars, tablevars, rest>>

vars == <<impl, all_csv, covid_csv, pc, urls_left, new_csv, new_df, combined_df,
          combined_covid_df, result, outcome, pre_all, pre_covid, any_failed,
          extraction>>

files == <<all_csv, covid_csv>>
locals == <<new_csv, new_df, combined_df, combined_covid_df>>
ghosts == <<pre_all, pre_covid>>
runvars == <<urls_left, outcome, any_failed>>

MergeInit ==
  /\ impl \in Impls
  /\ all_csv = Absent
  /\ covid_csv = Absent
  /\ pc = [p \in Procs |-> "start"]
  /\ urls_left = [p \in Procs |-> 0]
  /\ new_csv = [p \in Procs |-> <<>>]
  /\ new_df = [p \in Procs |-> <<>>]
  /\ combined_df = [p \in Procs |-> <<>>]
  /\ combined_covid_df = [p \in Procs |-> <<>>]
  /\ result = [p \in Procs |-> TRUE]
  /\ outcome = [p \in Procs |-> "running"]
  /\ pre_all = [p \in Procs |-> Absent]
  /\ pre_covid = [p \in Procs |-> Absent]
  /\ any_failed = [p \in Procs |-> FALSE]

\* no batch extraction is running
BatchIdle ==
  /\ futures = <<>>
  /\ pending = {}
  /\ all_results = <<>>
  /\ output_csv = Absent
  /\ batch_pc = "idle"

\* no document is being processed
DocIdle ==
  /\ content = <<>>
  /\ df = <<>>
  /\ week_info = <<>>
  /\ pathogen_data = <<>>
  /\ doc_results = <<>>
  /\ doc_pc = "idle"

\* no column is being resolved
ColsIdle ==
  /\ cols = <<>>
  /\ picked = <<>>

\* no table is being picked
TableIdle ==
  /\ candidates = <<>>
  /\ cand_i = 0
  /\ best_df = 0
  /\ best_score = 0

\* no header is being normalized
HeadIdle ==
  /\ raw_df = <<>>
  /\ norm_df = <<>>

StagesIdle ==
  /\ skip_download = FALSE
  /\ stage = "idle"
  /\ temp = <<>>
  /\ target = <<>>
  /\ events = <<>>

DagIdle ==
  /\ ti = <<>>
  /\ xcom = <<>>
  /\ fetched_links = {}
  /\ history_file = <<>>
  /\ url_file = <<>>
  /\ tmp = <<>>
  /\ merged = {}
  /\ order = <<>>
  /\ pre_history = <<>>

RenderIdle ==
  /\ render_urls = <<>>
  /\ sem = 0
  /\ render_pc = <<>>
  /\ pdf_path = <<>>
  /\ out_dir = <<>>
  /\ existed = {}
  /\ log = <<>>

RestIdle == HeadIdle /\ StagesIdle /\ DagIdle /\ RenderIdle

ExtractionIdle ==
  /\ entry = "surveillance"
  /\ RestIdle
  /\ BatchIdle
  /\ DocIdle
  /\ ColsIdle
  /\ TableIdle

Init == MergeInit /\ ExtractionIdle

\* ------------------------------------------------------------- the run
\* main(): the URL list is read; an empty list ends the run with status 1.
\* organize_and_merge_data(): no CSV file makes the task return at once.
StartRun(p) ==
  /\ pc[p] = "start"
  /\ \E n \in 0 .. MaxUrls :
       IF n = 0
       THEN /\ pc' = [pc EXCEPT ![p] = "ended"]
            /\ outcome' = [outcome EXCEPT ![p] = IF impl = "pipeline" THEN "failed" ELSE "success"]
            /\ UNCHANGED urls_left
       ELSE /\ pc' = [pc EXCEPT ![p] = "loop"]
            /\ urls_left' = [urls_left EXCEPT ![p] = n]
            /\ UNCHANGED outcome
  /\ UNCHANGED <<impl, extraction, files, locals, result, ghosts, any_failed>>

\* the document run p handles next
doc_id(p) == (p - 1) * MaxUrls + urls_left[p]

\* the merge is called for the next document and reads new_csv
CallMergeFrom(p, batches) ==
  /\ pc[p] = "loop"
  /\ urls_left[p] > 0
  /\ \E b \in batches :
       /\ new_csv' = [new_csv EXCEPT ![p] = b]
       /\ new_df' = [new_df EXCEPT ![p] = b]
  /\ pre_all' = [pre_all EXCEPT ![p] = all_csv]
  /\ pre_covid' = [pre_covid EXCEPT ![p] = covid_csv]
  /\ pc' = [pc EXCEPT ![p] = "read_all"]
  /\ UNCHANGED <<impl, extraction, files, combined_df, combined_covid_df, result, runvars>>

CallMerge(p) == CallMergeFrom(p, BatchesOf(doc_id(p), MaxBatch))

\* pd.read_csv(new_csv) raises (the extractor wrote no file for the document)
ReadNewFails(p) ==
  /\ pc[p] = "loop"
  /\ urls_left[p] > 0
  /\ pre_all' = [pre_all EXCEPT ![p] = all_csv]
  /\ pre_covid' = [pre_covid EXCEPT ![p] = covid_csv]
  /\ result' = [result EXCEPT ![p] = FALSE]
  /\ pc' = [pc EXCEPT ![p] = "returned"]
  /\ UNCHANGED <<impl, extraction, files, locals, runvars>>

\* the table the merge branch builds from the batch and the history read
merge_rows(new, all_df) == sort_values(drop_duplicates(concat(new, all_df)))

\* the table written to all_csv: the merge branch when the file exists,
\* else the batch, sorted
all_table(new, f) == IF exists(f) THEN merge_rows(new, f.rows) ELSE sort_values(new)

\* the history file is looked up and read, and the new table is computed
ReadAll(p) ==
  /\ pc[p] = "read_all"
  /\ all_csv.kind # "zero"
  /\ combined_df' = [combined_df EXCEPT ![p] = all_table(new_df[p], all_csv)]
  \* without a history file new_df is rebound to its sorted copy
  /\ new_df' = [new_df EXCEPT ![p] = IF exists(all_csv) THEN new_df[p] ELSE sort_values(new_df[p])]
  /\ pc' = [pc EXCEPT ![p] = "open_all"]
  /\ UNCHANGED <<impl, extraction, files, new_csv, combined_covid_df, result, ghosts, runvars>>

\* to_csv(all_csv): the file is opened with mode 'w', which truncates it
OpenAll(p) ==
  /\ pc[p] = "open_all"
  /\ all_csv' = Zero
  /\ pc' = [pc EXCEPT ![p] = "flush_all"]
  /\ UNCHANGED <<impl, extraction, covid_csv, locals, result, ghosts, runvars>>

\* to_csv(all_csv): header and rows are written and the file is closed
FlushAll(p) ==
  /\ pc[p] = "flush_all"
  /\ all_csv' = Table(combined_df[p])
  /\ combined_df' = [combined_df EXCEPT ![p] = <<>>]
  /\ pc' = [pc EXCEPT ![p] = "read_covid"]
  /\ UNCHANGED <<impl, extraction, covid_csv, new_csv, new_df, combined_covid_df, result, ghosts, runvars>>

\* main_pipeline: an existing covid file is always merged into;
\* the DAG skips the whole covid step when the batch has no covid row
covid_step_runs(covid_new_df, f) ==
  IF impl = "pipeline" THEN exists(f) \/ Len(covid_new_df) > 0
  ELSE Len(covid_new_df) > 0

\* the rows written to covid_csv, before the final sort
covid_rows(covid_new_df, f) ==
  IF exists(f) THEN drop_duplicates(concat(covid_new_df, f.rows))
  ELSE covid_new_df

\* covid_new_df is filtered from the batch, the covid file is looked up and read
ReadCovid(p) ==
  /\ pc[p] = "read_covid"
  /\ LET covid_new_df == covid_filter(new_df[p])
     IN  IF covid_step_runs(covid_new_df, covid_csv)
         THEN /\ covid_csv.kind # "zero"
              /\ \E t \in sort_values_date(covid_rows(covid_new_df, covid_csv)) :
                   combined_covid_df' = [combined_covid_df EXCEPT ![p] = t]
              /\ pc' = [pc EXCEPT ![p] = "open_covid"]
              /\ UNCHANGED result
         ELSE /\ pc' = [pc EXCEPT ![p] = "returned"]
              /\ result' = [result EXCEPT ![p] = TRUE]
              /\ UNCHANGED combined_covid_df
  /\ UNCHANGED <<impl, extraction, files, new_csv, new_df, combined_df, ghosts, runvars>>

OpenCovid(p) ==
  /\ pc[p] = "open_covid"
  /\ covid_csv' = Zero
  /\ pc' = [pc EXCEPT ![p] = "flush_covid"]
  /\ UNCHANGED <<impl, extraction, all_csv, locals, result, ghosts, runvars>>

FlushCovid(p) ==
  /\ pc[p] = "flush_covid"
  /\ covid_csv' = Table(combined_covid_df[p])
  /\ combined_covid_df' = [combined_covid_df EXCEPT ![p] = <<>>]
  /\ pc' = [pc EXCEPT ![p] = "returned"]
  /\ result' = [result EXCEPT ![p] = TRUE]
  /\ UNCHANGED <<impl, extraction, all_csv, new_csv, new_df, combined_df, ghosts, runvars>>

\* what an interrupted to_csv leaves: nothing flushed yet, or the header and
\* the first k rows
partial(s) == { Zero } \cup { Table(SubSeq(s, 1, k)) : k \in 0 .. (Len(s) - 1) }

\* an I/O call raises: opening a file for writing, reading a file that is
\* there, or a write under way.  merge_to_main_data catches it and returns
\* False; merge_csv_to_main lets it reach the except clause of its caller
Fail(p) ==
  /\ pc[p] \in {"read_all", "open_all", "flush_all", "read_covid", "open_covid", "flush_covid"}
  /\ \/ /\ pc[p] \in {"open_all", "open_covid"}
        /\ UNCHANGED files
     \/ /\ pc[p] = "read_all"
        /\ all_csv.kind = "table"
        /\ UNCHANGED files
     \/ /\ pc[p] = "read_covid"
        /\ covid_step_runs(covid_filter(new_df[p]), covid_csv)
        /\ covid_csv.kind = "table"
        /\ UNCHANGED files
     \/ /\ pc[p] = "flush_all"
        /\ all_csv' \in partial(combined_df[p])
        /\ UNCHANGED covid_csv
     \/ /\ pc[p] = "flush_covid"
        /\ covid_csv' \in partial(combined_covid_df[p])
        /\ UNCHANGED all_csv
  /\ combined_df' = [combined_df EXCEPT ![p] = <<>>]
  /\ combined_covid_df' = [combined_covid_df EXCEPT ![p] = <<>>]
  /\ result' = [result EXCEPT ![p] = FALSE]
  /\ pc' = [pc EXCEPT ![p] = "returned"]
  /\ UNCHANGED <<impl, extraction, new_csv, new_df, ghosts, runvars>>

\* pd.read_csv of a zero-byte file raises EmptyDataError: a history or covid
\* file left empty by an interrupted write fails every later merge
EmptyDataError(p) ==
  /\ \/ /\ pc[p] = "read_all"
        /\ all_csv.kind = "zero"
     \/ /\ pc[p] = "read_covid"
        /\ covid_step_runs(covid_filter(new_df[p]), covid_csv)
        /\ covid_csv.kind = "zero"
  /\ result' = [result EXCEPT ![p] = FALSE]
  /\ pc' = [pc EXCEPT ![p] = "returned"]
  /\ UNCHANGED <<impl, extraction, files, locals, ghosts, runvars>>

\* back in the loop: a failed merge is printed / logged and the loop goes on
\* (`continue`) with the next document
AfterMerge(p) ==
  /\ pc[p] = "returned"
  /\ any_failed' = [any_failed EXCEPT ![p] = any_failed[p] \/ ~result[p]]
  /\ urls_left' = [urls_left EXCEPT ![p] = urls_left[p] - 1]
  /\ new_csv' = [new_csv EXCEPT ![p] = <<>>]
  /\ new_df' = [new_df EXCEPT ![p] = <<>>]
  /\ combined_df' = [combined_df EXCEPT ![p] = <<>>]
  /\ combined_covid_df' = [combined_covid_df EXCEPT ![p] = <<>>]
  /\ result' = [result EXCEPT ![p] = TRUE]
  /\ pre_all' = [pre_all EXCEPT ![p] = Absent]
  /\ pre_covid' = [pre_covid EXCEPT ![p] = Absent]
  /\ pc' = [pc EXCEPT ![p] = "loop"]
  /\ UNCHANGED <<impl, extraction, files, outcome>>

\* the loop is over: main() returns 0, organize_and_merge_data returns
EndRun(p) ==
  /\ pc[p] = "loop"
  /\ urls_left[p] = 0
  /\ outcome' = [outcome EXCEPT ![p] = "success"]
  /\ pc' = [pc EXCEPT ![p] = "ended"]
  /\ UNCHANGED <<impl, extraction, files, locals, result, ghosts, urls_left, any_failed>>

MergeStep(p) ==
  \/ ReadAll(p)
  \/ OpenAll(p)
  \/ FlushAll(p)
  \/ ReadCovid(p)
  \/ OpenCovid(p)
  \/ FlushCovid(p)

\* one run at a time
Next ==
  \/ StartRun(1)
  \/ CallMerge(1)
  \/ ReadNewFails(1)
  \/ MergeStep(1)
  \/ Fail(1)
  \/ EmptyDataError(1)
  \/ AfterMerge(1)
  \/ EndRun(1)

Spec == Init /\ [][Next]_vars

\* ------------------------------------------------ two runs at the same time
\* rows in a batch when two runs merge at the same time
MaxConcBatch == 1

\* the history the two runs start from: none yet, or one written by an
\* earlier run (document 0), with the covid file that run wrote
InitConc ==
  /\ impl \in Impls
  /\ \E h \in {<<>>} \cup BatchesOf(0, 1) :
       /\ all_csv = IF h = <<>> THEN Absent ELSE Table(h)
       /\ covid_csv = IF covid_filter(h) = <<>> THEN Absent ELSE Table(covid_filter(h))
  /\ pc = [p \in Procs |-> "loop"]
  /\ urls_left = [p \in Procs |-> 1]
  /\ new_csv = [p \in Procs |-> <<>>]
  /\ new_df = [p \in Procs |-> <<>>]
  /\ combined_df = [p \in Procs |-> <<>>]
  /\ combined_covid_df = [p \in Procs |-> <<>>]
  /\ result = [p \in Procs |-> TRUE]
  /\ outcome = [p \in Procs |-> "running"]
  /\ pre_all = [p \in Procs |-> Absent]
  /\ pre_covid = [p \in Procs |-> Absent]
  /\ any_failed = [p \in Procs |-> FALSE]
  /\ ExtractionIdle

CallMergeConc(p) == CallMergeFrom(p, BatchesOf(doc_id(p), MaxConcBatch))

\* nothing serializes the invocations: no lock is taken on either file
NextConc == \E p \in Procs : CallMergeConc(p) \/ MergeStep(p) \/ EmptyDataError(p)

SpecConc == InitConc /\ [][NextConc]_vars


\* ------------------------------------------------------------ properties
Range(s) == { s[i] : i \in 1 .. Len(s) }

RowsWithKey(s, k) == { i \in 1 .. Len(s) : Key(s[i]) = k }

\* run p has just written the history (the state FlushAll leaves)
JustWritten(p) == pc[p] = "read_covid"

\* run p has just merged into a history that existed
JustMerged(p) == JustWritten(p) /\ pre_all[p].kind = "table"

\* C1: new wins.  When a batch is merged into an existing history, every key
\* that the batch and the old table share has exactly one row in the written
\* table, and that row is a row of the batch, not the old one.
C1_NewWins ==
  \A p \in Procs :
    JustMerged(p) =>
      \A k \in Keys(new_csv[p]) \cap Keys(pre_all[p].rows) :
        /\ Cardinality(RowsWithKey(all_csv.rows, k)) = 1
        /\ \A i \in RowsWithKey(all_csv.rows, k) :
             /\ all_csv.rows[i] \in Range(new_csv[p])
             /\ all_csv.rows[i] \notin Range(pre_all[p].rows)

\* a merge into a history of two rows or more that shares a key with the batch
C1_Witness ==
  /\ JustMerged(1)
  /\ Len(pre_all[1].rows) >= 2
  /\ Keys(new_csv[1]) \cap Keys(pre_all[1].rows) # {}
  /\ ~(Keys(pre_all[1].rows) \subseteq Keys(new_csv[1]))

\* C2: the historical table never holds two rows with the same natural key.
C2_Deduplicated ==
  all_csv.kind = "table" =>
    \A i, j \in 1 .. Len(all_csv.rows) :
      i # j => Key(all_csv.rows[i]) # Key(all_csv.rows[j])

\* C3: merge idempotence.  Merging the batch that was just merged once more,
\* into the table the first merge wrote, leaves that table as it is.
C3_Idempotent ==
  \A p \in Procs :
    JustWritten(p) => all_table(new_csv[p], all_csv) = all_csv.rows

\* C4: sort invariant.  Whenever the history holds a table, its rows are
\* non-increasing in reference_date with the missing dates last, and rows of
\* equal reference_date are non-decreasing in pathogen.
C4_Sorted ==
  all_csv.kind = "table" =>
    \A i \in 1 .. (Len(all_csv.rows) - 1) :
      LET a == all_csv.rows[i]
          b == all_csv.rows[i + 1]
      IN  /\ a.reference_date = NULL => b.reference_date = NULL
          /\ b.reference_date # NULL => a.reference_date >= b.reference_date
          /\ a.reference_date = b.reference_date => a.pathogen <= b.pathogen

\* a merge of an unsorted batch into an existing history gave a table with
\* two dates, a missing date and two pathogens of one date
C4_Witness ==
  /\ JustMerged(1)
  /\ new_csv[1] # sort_values(new_csv[1])
  /\ Len(all_csv.rows) >= 4
  /\ all_csv.rows[1].reference_date = 2
  /\ all_csv.rows[Len(all_csv.rows)].reference_date = NULL
  /\ \E i \in 1 .. (Len(all_csv.rows) - 1) :
       /\ all_csv.rows[i].reference_date = 1
       /\ all_csv.rows[i + 1].reference_date = 1
       /\ all_csv.rows[i].pathogen < all_csv.rows[i + 1].pathogen

\* the records of a file (none when the file is missing)
RecordsOf(f) == Range(f.rows)

\* C5: after every merge that returns successfully, the records of the covid
\* table are the records of the history that match the coronavirus pattern.
C5_CovidDerivable ==
  \A p \in Procs :
    (pc[p] = "returned" /\ result[p]) =>
      RecordsOf(covid_csv) = { r \in RecordsOf(all_csv) : str_contains(r.pathogen) }

\* what a fully successful invocation of run p leaves in the two files
Reflected(p) ==
  LET covid_new_df == covid_filter(IF exists(pre_all[p]) THEN new_csv[p]
                                                          ELSE sort_values(new_csv[p]))
  IN  /\ new_csv[p] # <<>>
      /\ all_csv = Table(all_table(new_csv[p], pre_all[p]))
      /\ IF covid_step_runs(covid_new_df, pre_covid[p])
         THEN covid_csv \in { Table(t) : t \in sort_values_date(covid_rows(covid_new_df, pre_covid[p])) }
         ELSE covid_csv = pre_covid[p]

\* C6: all or nothing.  When a merge invocation exits, both files reflect the
\* batch or both are as they were when it began.
C6_AllOrNothing ==
  \A p \in Procs :
    pc[p] = "returned" =>
      \/ all_csv = pre_all[p] /\ covid_csv = pre_covid[p]
      \/ Reflected(p)

\* C7: no lost update.  When two invocations that began against the same
\* history have both returned, the history holds every key of both batches
\* and of the history they began with.
C7_NoLostUpdate ==
  ( /\ pc[1] = "returned" /\ result[1]
    /\ pc[2] = "returned" /\ result[2]
    /\ pre_all[1] = pre_all[2] ) =>
      (Keys(new_csv[1]) \cup Keys(new_csv[2]) \cup Keys(pre_all[1].rows))
        \subseteq Keys(all_csv.rows)

\* C8: a failed merge is fatal for the run.  No run in which a merge
\* invocation failed ends as a success.
C8_FailedMergeFatal ==
  \A p \in Procs : outcome[p] = "success" => ~any_failed[p]

\* C9: no partial write is observable.  From the moment an invocation has
\* read its batch, the history file holds the complete previous table or the
\* complete new one.
C9_NoPartialWrite ==
  \A p \in Procs :
    (pc[p] \in {"read_all", "open_all", "flush_all", "read_covid", "open_covid",
                "flush_covid", "returned"} /\ new_csv[p] # <<>>) =>
      \/ all_csv = pre_all[p]
      \/ all_csv = Table(all_table(new_csv[p], pre_all[p]))

\* C10: frame of the merge.  After a merge into an existing history, every old
\* record whose key is not in the batch is in the new table unchanged, and the
\* keys of the new table are the keys of the batch and of the old table.
C10_Frame ==
  \A p \in Procs :
    JustMerged(p) =>
      /\ \A r \in Range(pre_all[p].rows) :
           Key(r) \notin Keys(new_csv[p]) => r \in Range(all_csv.rows)
      /\ Keys(all_csv.rows) = Keys(new_csv[p]) \cup Keys(pre_all[p].rows)

\* ------------------------------------------------------------ calendar
\* The datetime.date arithmetic behind date.fromisocalendar and strftime.
\* In the extractors a date is either a string "YYYY-MM-DD", written here
\* <<Y, M, D>>, or a proleptic Gregorian ordinal (day 1 is 0001-01-01, a
\* Monday).
MINYEAR == 1
MAXYEAR == 9999
THURSDAY == 3

is_leap(year) == year % 4 = 0 /\ (year % 100 # 0 \/ year % 400 = 0)

days_before_year(year) ==
  LET y == year - 1
  IN  y * 365 + (y \div 4) - (y \div 100) + (y \div 400)

days_in_month(year, month) ==
  IF month = 2 THEN (IF is_leap(year) THEN 29 ELSE 28)
  ELSE IF month \in {4, 6, 9, 11} THEN 30 ELSE 31

days_before_month(year, month) ==
  LET F[m \in 1 .. 12] == IF m = 1 THEN 0 ELSE F[m - 1] + days_in_month(year, m - 1)
  IN  F[month]

ymd2ord(year, month, day) ==
  days_before_year(year) + days_before_month(year, month) + day

\* the inverse of ymd2ord, as strftime("%Y-%m-%d") prints a date
ord2ymd(n) ==
  LET year == CHOOSE y \in (n \div 366) .. ((n \div 365) + 1) :
                days_before_year(y) < n /\ n <= days_before_year(y + 1)
      month == CHOOSE m \in 1 .. 12 :
                 /\ days_before_month(year, m) < n - days_before_year(year)
                 /\ n - days_before_year(year) <= days_before_month(year, m) + days_in_month(year, m)
  IN  <<year, month, n - days_before_year(year) - days_before_month(year, month)>>

\* week 1 taken to be the week of 1 January, whatever its weekday
isoweek1monday_jan1(year) ==
  LET firstday == ymd2ord(year, 1, 1)
      firstweekday == (firstday + 6) % 7
  IN  firstday - firstweekday

\* the Monday of ISO week 1: the week that holds the year's first Thursday
isoweek1monday(year) ==
  LET firstday == ymd2ord(year, 1, 1)
      firstweekday == (firstday + 6) % 7
      week1monday == firstday - firstweekday
  IN  IF firstweekday > THURSDAY THEN week1monday + 7 ELSE week1monday

\* the arguments for which date.fromisocalendar(year, week, day) raises ValueError
fromisocalendar_raises(year, week, day) ==
  \/ ~(MINYEAR <= year /\ year <= MAXYEAR)
  \/ /\ ~(0 < week /\ week < 53)
     /\ ~ /\ week = 53
          /\ LET first_weekday == ymd2ord(year, 1, 1) % 7
             IN  first_weekday = 4 \/ (first_weekday = 3 /\ is_leap(year))
  \/ ~(0 < day /\ day < 8)

fromisocalendar(year, week, day) ==
  isoweek1monday(year) + (week - 1) * 7 + (day - 1)

\* ------------------------------------------------------ batch extraction
\* main() of extract_surveillance_data.py and of src/extract_data_from_md.py:
\* one task per document on a thread pool, the results collected as the
\* tasks complete, then sorted and written.
\* In the extractors the string "YYYY-MM-DD" is the number YYYYMMDD and the
\* week label "YYYY-WW" is the number YYYYWW; None is NULL.

\* documents in one batch
MaxDocs == 3
\* records one document yields
MaxDocRows == 1

Entries == {"surveillance", "md"}

\* f"{y:04d}-{mo:02d}-{d:02d}"
datestr(y, mo, d) == y * 10000 + mo * 100 + d

\* week_iso: f"{y}-{w:02d}"
week_iso(y, w) == y * 100 + w

\* pd.to_datetime(s, errors="coerce") of a string "YYYY-MM-DD"
to_datetime_iso(s) ==
  LET y == s \div 10000
      mo == (s \div 100) % 100
      d == s % 100
  IN  IF /\ s # NULL
         /\ MINYEAR <= y /\ y <= MAXYEAR
         /\ mo \in 1 .. 12
         /\ 1 <= d /\ d <= days_in_month(y, mo)
      THEN ymd2ord(y, mo, d)
      ELSE NaT

\* Series.dt.strftime('%Y-%m-%d') in the merge model's day numbers
strftime(x) == IF x = NaT THEN NULL ELSE x

\* row i of document doc as process_one returns it
MdRow(q, p, doc, i) ==
  [report_date |-> q[1], report_week |-> q[2], pathogen |-> p,
   ili_percent |-> 10 * doc + i, sari_percent |-> NULL]

\* the rows process_one can return for document doc: any pathogens, and one
\* (report_date, report_week): neither resolved; the week alone (its year
\* from the file name); both
MdBatchesOf(doc, n) ==
  { [i \in 1 .. Len(ps) |-> MdRow(q, ps[i], doc, i)] :
      q \in { <<NULL, NULL>>,
               <<NULL, week_iso(2025, 6)>>,
               <<datestr(2025, 2, 3), week_iso(2025, 6)>>,
               <<datestr(2025, 2, 10), week_iso(2025, 7)>> },
      ps \in UNION { [1 .. m -> Pathogens] : m \in 1 .. n } }

\* what the task of a document does: it raises, or it returns its records
\* (none when the document has no table that qualifies)
Raises == [raises |-> TRUE, rows |-> <<>>]
Returns(s) == [raises |-> FALSE, rows |-> s]

TaskResults(e, doc) ==
  { Raises, Returns(<<>>) } \cup
  { Returns(b) : b \in IF e = "surveillance" THEN BatchesOf(doc, MaxDocRows)
                       ELSE MdBatchesOf(doc, MaxDocRows) }

\* process_surveillance_file: try / except Exception: return []
process_surveillance_file(t) == IF t.raises THEN <<>> ELSE t.rows

\* df["_sort_date"]: report_date, else the Monday of report_week
sort_date(r) ==
  LET t == to_datetime_iso(r.report_date)
  IN  IF t # NaT THEN t
      ELSE IF r.report_week # NULL
           THEN fromisocalendar(r.report_week \div 100, r.report_week % 100, 1)
           ELSE NaT

\* sort_values("_sort_date", ascending=False, kind="mergesort"): stable,
\* descending on _sort_date, NaT last
sort_values_mergesort(s) ==
  LET SortDateBefore(a, b) ==
        LET x == sort_date(a)
            y == sort_date(b)
        IN  IF x = NaT THEN FALSE
            ELSE IF y = NaT THEN TRUE
            ELSE x > y
      F[i \in 0 .. Len(s)] ==
        IF i = 0 THEN <<>>
        ELSE LET t == F[i - 1]
                 r == s[i]
                 before == { j \in 1 .. Len(t) : SortDateBefore(r, t[j]) }
                 pos == IF before = {} THEN Len(t) + 1
                        ELSE CHOOSE j \in before : \A k \in before : j <= k
             IN  InsertAt(t, pos, r)
  IN F[Len(s)]

\* the DataFrame main() writes from the collected records
written(e, s) ==
  IF e = "surveillance"
  THEN LET t == sort_values(s)
       IN  [i \in 1 .. Len(t) |->
              [t[i] EXCEPT !.reference_date = strftime(to_datetime(@))]]
  ELSE sort_values_mergesort(s)

InitBatch ==
  /\ MergeInit
  /\ RestIdle
  /\ impl = "pipeline"
  /\ entry \in Entries
  /\ \E n \in 1 .. MaxDocs :
       futures \in { f \in [1 .. n -> UNION { TaskResults(entry, d) : d \in 1 .. n }] :
                       \A d \in 1 .. n : f[d] \in TaskResults(entry, d) }
  /\ pending = DOMAIN futures
  /\ all_results = <<>>
  /\ output_csv = Absent
  /\ batch_pc = "collecting"
  /\ DocIdle
  /\ ColsIdle
  /\ TableIdle

\* as_completed yields the future of document d and result() returns
FutureResult(d) ==
  /\ batch_pc = "collecting"
  /\ d \in pending
  /\ entry = "md" => ~futures[d].raises
  /\ all_results' = all_results \o
       (IF entry = "surveillance" THEN process_surveillance_file(futures[d])
        ELSE futures[d].rows)
  /\ pending' = pending \ {d}
  /\ UNCHANGED <<impl, files, pc, locals, result, ghosts, runvars>>
  /\ UNCHANGED <<entry, futures, output_csv, batch_pc, docvars, colvars, tablevars, rest>>

\* as_completed yields the future of a process_one that raised: result()
\* raises it again in main(), which has no handler
FutureRaises(d) ==
  /\ batch_pc = "collecting"
  /\ d \in pending
  /\ entry = "md"
  /\ futures[d].raises
  /\ batch_pc' = "aborted"
  /\ UNCHANGED <<impl, files, pc, locals, result, ghosts, runvars>>
  /\ UNCHANGED <<entry, futures, pending, all_results, output_csv, docvars, colvars, tablevars, rest>>

\* if not all_results: return
ReturnNoData ==
  /\ batch_pc = "collecting"
  /\ pending = {}
  /\ all_results = <<>>
  /\ batch_pc' = "done"
  /\ UNCHANGED <<impl, files, pc, locals, result, ghosts, runvars>>
  /\ UNCHANGED <<entry, futures, pending, all_results, output_csv, docvars, colvars, tablevars, rest>>

\* sort and df.to_csv
WriteOutput ==
  /\ batch_pc = "collecting"
  /\ pending = {}
  /\ all_results # <<>>
  /\ output_csv' = Table(written(entry, all_results))
  /\ batch_pc' = "done"
  /\ UNCHANGED <<impl, files, pc, locals, result, ghosts, runvars>>
  /\ UNCHANGED <<entry, futures, pending, all_results, docvars, colvars, tablevars, rest>>

NextBatch ==
  \/ \E d \in 1 .. MaxDocs : FutureResult(d)
  \/ \E d \in 1 .. MaxDocs : FutureRaises(d)
  \/ ReturnNoData
  \/ WriteOutput

SpecBatch == InitBatch /\ [][NextBatch]_vars

\* the records the tasks return, in the order the tasks were submitted
RECURSIVE submitted(_)
submitted(n) ==
  IF n = 0 THEN <<>>
  ELSE submitted(n - 1) \o
       (IF entry = "surveillance" THEN process_surveillance_file(futures[n])
        ELSE futures[n].rows)

\* C11: the table a batch entry point writes is the same for every order in
\* which the tasks complete: whatever the order, it is the table written
\* when the tasks complete in the order they were submitted.
C11_OrderIndependent ==
  (batch_pc = "done" /\ output_csv.kind = "table") =>
     output_csv.rows = written(entry, submitted(Len(futures)))

\* C12: a document with no qualifying table, or whose processing fails,
\* contributes no record and never aborts the batch: when main() has ended,
\* every record of every other document is in the table written.
C12_NeverAborts ==
  batch_pc \in {"done", "aborted"} =>
     \A d \in DOMAIN futures :
        ~futures[d].raises =>
           \A i \in 1 .. Len(futures[d].rows) :
              \E j \in 1 .. Len(output_csv.rows) : output_csv.rows[j] = futures[d].rows[i]

\* ---------------------------------------------------------- one document
\* process_surveillance_file (extract_surveillance_data.py) and process_one
\* (src/extract_data_from_md.py) on one document.
\*
\* The text of a document is a sequence of fragments, each one of the forms
\* the period patterns are written for:
\*   "range"      Y年第W周（M1月D1日-M2月D2日）
\*   "cross_year" Y年第W周（Y1年M1月D1日-Y2年M2月D2日）
\*   "same_year"  Y年第W周（Y1年M1月D1日-M2月D2日）
\*   "monthly"    Y年M月（第W周-W2周，M1月D1日-M2月D2日）
\*   "bare"       Y年第W周
\*   "label"      时间：YYYY-MM-DD
\*   "long_date"  Y年M月D日
\*   "other"      text no pattern matches
\* The month and day signs of a fragment are either the Kangxi radicals
\* U+2F49 U+2F47, which pattern1..pattern4 spell, or the ideographs U+6708
\* U+65E5, which parse_report_date spells.
\* A cell is a sequence of characters; "x" is any character that is not a
\* digit, a point, a minus or a percent sign.  A float x is <<x * 10^MaxCellLen>>
\* and None, where a float is expected, is <<>>.

\* fragments in one text
MaxFrags == 2
\* characters in the longer indicator cell of a row
MaxCellLen == 3

None == <<>>

NoDate == <<0, 0, 0>>

Frag(kind, glyph, year, week, start, end) ==
  [kind |-> kind, glyph |-> glyph, year |-> year, week |-> week,
   start |-> start, end |-> end]

\* The fragments a text is made of.  Week 46 of 2024 comes with its ISO range
\* (11-11 to 11-17) and with a Sunday to Saturday range (11-10 to 11-16).  In
\* a "monthly" fragment year and week are those of the first week.  Week 1
\* of 2025 (30 December 2024 to 5 January 2025) comes with both years
\* written, with the first year only, and with no year in the range.  The bare
\* markers take years with 53 ISO weeks (2020, 2026) and with 52 (2025, 2027;
\* 1 January 2027 is a Friday, so week 1 of 2027 starts on 4 January).
Frags ==
  LET Glyphs == {"kangxi", "cjk"}
  IN  { Frag("range", g, 2024, 46, <<0, 11, d>>, <<0, 11, d + 6>>) :
          g \in Glyphs, d \in {10, 11} }
      \cup { Frag("cross_year", g, 2025, 1, <<2024, 12, 30>>, <<2025, 1, 5>>) : g \in Glyphs }
      \cup { Frag("same_year", g, 2025, 6, <<2025, 2, 3>>, <<0, 2, 9>>) : g \in Glyphs }
      \cup { Frag("monthly", g, 2025, 19, <<0, 5, 5>>, <<0, 6, 1>>) : g \in Glyphs }
      \cup { Frag("range", g, 2025, 1, <<0, 12, 30>>, <<0, 1, 5>>) : g \in Glyphs }
      \cup { Frag("same_year", g, 2025, 1, <<2024, 12, 30>>, <<0, 1, 5>>) : g \in Glyphs }
      \cup { Frag("bare", "cjk", y, w, NoDate, NoDate) :
               y \in {2020, 2025, 2026, 2027}, w \in {1, 6, 53, 60} }
      \cup { Frag("label", "cjk", 0, 0, <<2025, 5, 8>>, NoDate) }
      \cup { Frag("long_date", g, 0, 0, <<2025, 5, 7>>, NoDate) : g \in Glyphs }
      \cup { Frag("other", "cjk", 0, 0, NoDate, NoDate) }

Texts == UNION { [1 .. n -> Frags] : n \in 0 .. MaxFrags }

\* file names: "t20250509_1.md", "2025w19.md", "report.md"; tdate is what
\* FILENAME_DATE_PAT captures, year4 is int(name[:4]) where that is a number
Filenames ==
  { [tdate |-> <<2025, 5, 9>>, year4 |-> NULL],
    [tdate |-> NoDate, year4 |-> 2025],
    [tdate |-> NoDate, year4 |-> NULL] }

\* whether pattern n (1..5 of extract_week_info_from_title, 6 and 7 of
\* parse_report_date) finds a match in fragment m
matches(n, m) ==
  CASE n = 1 -> m.kind = "range" /\ m.glyph = "kangxi"
    [] n = 2 -> m.kind = "cross_year" /\ m.glyph = "kangxi"
    [] n = 3 -> m.kind = "same_year" /\ m.glyph = "kangxi"
    [] n = 4 -> m.kind = "monthly" /\ m.glyph = "kangxi"
    [] n = 5 -> m.kind \in {"range", "cross_year", "same_year", "bare"}
    [] n = 6 -> m.kind = "label"
    [] n = 7 -> m.kind \in {"cross_year", "same_year", "long_date"} /\ m.glyph = "cjk"

\* re.search(pattern n, text): the leftmost match, 0 for None
search(n, text) ==
  IF \E i \in 1 .. Len(text) : matches(n, text[i])
  THEN CHOOSE i \in 1 .. Len(text) :
         /\ matches(n, text[i])
         /\ \A j \in 1 .. (i - 1) : ~matches(n, text[j])
  ELSE 0

\* what extract_week_info_from_title returns on a match m of pattern n
week_info_of(n, m) ==
  CASE n = 1 -> <<datestr(m.year, m.start[2], m.start[3]),
                  datestr(m.year, m.end[2], m.end[3]), m.week>>
    [] n = 2 -> <<datestr(m.start[1], m.start[2], m.start[3]),
                  datestr(m.end[1], m.end[2], m.end[3]), m.week>>
    [] n = 3 -> <<datestr(m.start[1], m.start[2], m.start[3]),
                  datestr(m.start[1], m.end[2], m.end[3]), m.week>>
    [] n = 4 -> <<datestr(m.year, m.start[2], m.start[3]),
                  datestr(m.year, m.end[2], m.end[3]), m.week>>
    [] n = 5 -> IF fromisocalendar_raises(m.year, m.week, 1)
                THEN <<NULL, NULL, m.week>>
                ELSE LET monday == ord2ymd(fromisocalendar(m.year, m.week, 1))
                         sunday == ord2ymd(fromisocalendar(m.year, m.week, 7))
                     IN  <<datestr(monday[1], monday[2], monday[3]),
                           datestr(sunday[1], sunday[2], sunday[3]), m.week>>

\* pattern1, then pattern2, ... pattern5, else (None, None, None)
extract_week_info_from_title(text) ==
  IF search(1, text) # 0 THEN week_info_of(1, text[search(1, text)])
  ELSE IF search(2, text) # 0 THEN week_info_of(2, text[search(2, text)])
  ELSE IF search(3, text) # 0 THEN week_info_of(3, text[search(3, text)])
  ELSE IF search(4, text) # 0 THEN week_info_of(4, text[search(4, text)])
  ELSE IF search(5, text) # 0 THEN week_info_of(5, text[search(5, text)])
  ELSE <<NULL, NULL, NULL>>

\* the label, then the long date, then the file name, else None
parse_report_date(text, filename) ==
  IF search(6, text) # 0
  THEN LET m == text[search(6, text)] IN datestr(m.start[1], m.start[2], m.start[3])
  ELSE IF search(7, text) # 0
  THEN LET m == text[search(7, text)] IN datestr(m.start[1], m.start[2], m.start[3])
  ELSE IF filename.tdate # NoDate
  THEN datestr(filename.tdate[1], filename.tdate[2], filename.tdate[3])
  ELSE NULL

\* ------------------------------------------------------------- cells
Digits == {"0", "1"}
Chars == Digits \cup {".", "-", "%", "x"}

\* a cell pandas read as missing
NaN == <<"NaN">>

Cells(n) == UNION { [1 .. m -> Chars] : m \in 0 .. n }

\* float(s) inside try / except: return None, for s of digits, points and
\* minus signs; the value is in units of 10 ^ -MaxCellLen
float(s) ==
  LET pow10[k \in 0 .. MaxCellLen] == IF k = 0 THEN 1 ELSE 10 * pow10[k - 1]
      num(t) == LET F[i \in 0 .. Len(t)] ==
                      IF i = 0 THEN 0 ELSE 10 * F[i - 1] + (IF t[i] = "1" THEN 1 ELSE 0)
                IN  F[Len(t)]
      neg == s # <<>> /\ s[1] = "-"
      body == IF neg THEN Tail(s) ELSE s
      dots == { i \in 1 .. Len(body) : body[i] = "." }
      dot == IF dots = {} THEN Len(body) + 1 ELSE CHOOSE i \in dots : TRUE
      int == SubSeq(body, 1, dot - 1)
      frac == SubSeq(body, dot + 1, Len(body))
  IN  IF /\ \A i \in 1 .. Len(body) : body[i] \in Digits \cup {"."}
         /\ Cardinality(dots) <= 1
         /\ \E i \in 1 .. Len(body) : body[i] \in Digits
      THEN << (IF neg THEN -1 ELSE 1) *
              (num(int) * pow10[MaxCellLen] + num(frac) * pow10[MaxCellLen - Len(frac)]) >>
      ELSE None

\* parse_pathogen_data.extract_numeric: the sign is removed with the rest
extract_numeric(val) ==
  IF val = NaN THEN None
  ELSE LET val_str == SelectSeq(val, LAMBDA c : c \in Digits \cup {"."})
       IN  IF val_str = <<>> \/ val_str = <<".">> THEN None ELSE float(val_str)

\* extract_latest_week_data.to_float: the sign is kept
to_float(x) ==
  IF x = NaN THEN None
  ELSE LET s == SelectSeq(x, LAMBDA c : c \in Digits \cup {".", "-"})
       IN  IF s = <<>> \/ s = <<"-">> THEN None ELSE float(s)

\* ------------------------------------------------------------- rows
\* entity names: "" (empty cell), "total" 合计, "sum" 总计, "header" 病原体,
\* "week" 第46周, "age" 0~4岁, "note" ①..., "covid" 新型冠状病毒, "flu" 流感病毒
Names == {"", "total", "sum", "header", "week", "age", "note", "covid", "flu"}

\* the rows parse_pathogen_data skips
skipped(pathogen) ==
  \/ pathogen \in {"total", "sum", "header", ""}
  \/ pathogen = "week"
  \/ pathogen = "age"
  \/ pathogen = "note"

\* one record per kept row that has a number in at least one of the two cells
parse_pathogen_data(rows) ==
  LET F[i \in 0 .. Len(rows)] ==
        IF i = 0 THEN <<>>
        ELSE LET ili_val == extract_numeric(rows[i].ili)
                 sari_val == extract_numeric(rows[i].sari)
             IN  IF skipped(rows[i].pathogen) THEN F[i - 1]
                 ELSE IF ili_val # None \/ sari_val # None
                 THEN Append(F[i - 1], [pathogen |-> rows[i].pathogen,
                                        ili_percent |-> ili_val,
                                        sari_percent |-> sari_val])
                 ELSE F[i - 1]
  IN  F[Len(rows)]

\* the rows of extract_latest_week_data: one record per row whose name is
\* not empty and not a total
extract_latest_week_data(rows) ==
  LET F[i \in 0 .. Len(rows)] ==
        IF i = 0 THEN <<>>
        ELSE IF rows[i].pathogen = "" \/ rows[i].pathogen \in {"total", "sum"}
             THEN F[i - 1]
             ELSE Append(F[i - 1], [pathogen |-> rows[i].pathogen,
                                    ili_percent |-> to_float(rows[i].ili),
                                    sari_percent |-> to_float(rows[i].sari)])
  IN  F[Len(rows)]

\* process_one: the week of the columns, with the year of report_date or
\* else of the file name; None when there is neither
report_week_of(report_date, filename, week_from_cols) ==
  IF week_from_cols = NULL THEN NULL
  ELSE IF report_date # NULL THEN week_iso(report_date \div 10000, week_from_cols)
  ELSE IF filename.year4 # NULL THEN week_iso(filename.year4, week_from_cols)
  ELSE NULL

\* The table found in a document: its data rows, and the largest week number
\* in its column labels (NULL when there is none).  RowTables: one row of any
\* name, one indicator cell of any characters and the other empty, a dash, a
\* number or (read by pandas) missing; two rows of any names with a number
\* each; or no row at all.  "nan" is the name str() gives an entity cell that
\* pandas read as missing.
RowTables(e) ==
  LET short == { <<>>, <<"-">>, <<"1">> } \cup IF e = "md" THEN {NaN} ELSE {}
      names == Names \cup IF e = "md" THEN {"nan"} ELSE {}
      max_week == IF e = "md" THEN 6 ELSE NULL
  IN  { [rows |-> <<[pathogen |-> name, ili |-> c[1], sari |-> c[2]]>>,
         max_week |-> max_week] :
          name \in names,
          c \in (Cells(MaxCellLen) \X short) \cup (short \X Cells(MaxCellLen)) }
      \cup { [rows |-> <<[pathogen |-> a, ili |-> <<"1">>, sari |-> <<>>],
                         [pathogen |-> b, ili |-> <<>>, sari |-> <<"0">>]>>,
               max_week |-> max_week] : a \in names, b \in names }
      \cup { [rows |-> <<>>, max_week |-> NULL] }

\* tables with one plain row
PlainTables(e) ==
  { [rows |-> <<[pathogen |-> "covid", ili |-> <<"1", ".", "1">>, sari |-> c]>>,
     max_week |-> w] :
      c \in {<<>>, <<"1">>}, w \in IF e = "md" THEN {NULL, 6} ELSE {NULL} }

\* process_surveillance_file on the document
ProcessSurveillanceFile ==
  /\ doc_pc = "start"
  /\ entry = "surveillance"
  /\ week_info' = extract_week_info_from_title(content.text)
  /\ pathogen_data' = parse_pathogen_data(df.rows)
  /\ doc_results' =
       [i \in 1 .. Len(pathogen_data') |->
          [pathogen |-> pathogen_data'[i].pathogen,
           ili_percent |-> pathogen_data'[i].ili_percent,
           sari_percent |-> pathogen_data'[i].sari_percent,
           reference_date |-> week_info'[1], target_end_date |-> week_info'[2],
           report_week |-> week_info'[3]]]
  /\ doc_pc' = "done"
  /\ UNCHANGED <<impl, files, pc, locals, result, ghosts, runvars>>
  /\ UNCHANGED <<entry, batchvars, content, df, colvars, tablevars, rest>>

\* process_one on the document
ProcessOne ==
  /\ doc_pc = "start"
  /\ entry = "md"
  /\ pathogen_data' = extract_latest_week_data(df.rows)
  /\ week_info' =
       IF pathogen_data' = <<>> THEN <<NULL, NULL>>
       ELSE LET report_date == parse_report_date(content.text, content.filename)
            IN  <<report_date, report_week_of(report_date, content.filename, df.max_week)>>
  /\ doc_results' =
       [i \in 1 .. Len(pathogen_data') |->
          [pathogen |-> pathogen_data'[i].pathogen,
           ili_percent |-> pathogen_data'[i].ili_percent,
           sari_percent |-> pathogen_data'[i].sari_percent,
           report_date |-> week_info'[1], report_week |-> week_info'[2]]]
  /\ doc_pc' = "done"
  /\ UNCHANGED <<impl, files, pc, locals, result, ghosts, runvars>>
  /\ UNCHANGED <<entry, batchvars, content, df, colvars, tablevars, rest>>

NextDoc == ProcessSurveillanceFile \/ ProcessOne

\* any text, a plain table
InitPeriod ==
  /\ MergeInit
  /\ RestIdle
  /\ impl = "pipeline"
  /\ entry \in Entries
  /\ BatchIdle
  /\ content \in [text : Texts, filename : Filenames]
  /\ df \in PlainTables(entry)
  /\ week_info = <<>>
  /\ pathogen_data = <<>>
  /\ doc_results = <<>>
  /\ doc_pc = "start"
  /\ ColsIdle
  /\ TableIdle

SpecPeriod == InitPeriod /\ [][NextDoc]_vars

\* any table, a text with no period or with a bare week
InitRows ==
  /\ MergeInit
  /\ RestIdle
  /\ impl = "pipeline"
  /\ entry \in Entries
  /\ BatchIdle
  /\ content \in [text : { <<>>, <<Frag("bare", "cjk", 2025, 6, NoDate, NoDate)>> },
                  filename : { [tdate |-> NoDate, year4 |-> NULL] }]
  /\ df \in RowTables(entry)
  /\ week_info = <<>>
  /\ pathogen_data = <<>>
  /\ doc_results = <<>>
  /\ doc_pc = "start"
  /\ ColsIdle
  /\ TableIdle

SpecRows == InitRows /\ [][NextDoc]_vars

\* ------------------------------------------- properties of one document
\* the names of rows that carry data
DataNames == {"covid", "flu"}

\* a cell that is missing, empty, dashes only, or otherwise without a digit
NoDigit(cell) == cell = NaN \/ \A i \in 1 .. Len(cell) : cell[i] \notin Digits

\* C13: a malformed numeric cell never drops a row: every row whose name is
\* a data name has a record, also when both indicator cells are empty,
\* dashes or unparsable, and each such cell gives null (never zero).
C13_RowKept ==
  doc_pc = "done" =>
    \A i \in 1 .. Len(df.rows) :
       df.rows[i].pathogen \in DataNames =>
         \E j \in 1 .. Len(doc_results) :
            /\ doc_results[j].pathogen = df.rows[i].pathogen
            /\ NoDigit(df.rows[i].ili) => doc_results[j].ili_percent = None
            /\ NoDigit(df.rows[i].sari) => doc_results[j].sari_percent = None

\* the fragments of the text that are week markers
Markers == { i \in 1 .. Len(content.text) :
               content.text[i].kind \in {"range", "cross_year", "same_year", "monthly", "bare"} }

\* the text has exactly one week marker and it has the form kind
OnlyMarker(kind) ==
  /\ Cardinality(Markers) = 1
  /\ \A i \in Markers : content.text[i].kind = kind

TheMarker == content.text[CHOOSE i \in Markers : TRUE]

\* the lowest-numbered of the eight matchers that matches the document, 0
\* when none does
FirstMatcher ==
  IF \E n \in 1 .. 7 : search(n, content.text) # 0
  THEN CHOOSE n \in 1 .. 7 :
         /\ search(n, content.text) # 0
         /\ \A k \in 1 .. (n - 1) : search(k, content.text) = 0
  ELSE IF content.filename.tdate # NoDate THEN 8 ELSE 0

\* what matcher n yields on the document: 1..5 a week marker's period, 6..8
\* a reference date alone
MatcherResult(n) ==
  IF n \in 1 .. 5 THEN week_info_of(n, content.text[search(n, content.text)])
  ELSE IF n \in 6 .. 7
  THEN LET m == content.text[search(n, content.text)]
       IN  <<datestr(m.start[1], m.start[2], m.start[3]), NULL, NULL>>
  ELSE IF n = 8
  THEN <<datestr(content.filename.tdate[1], content.filename.tdate[2],
                 content.filename.tdate[3]), NULL, NULL>>
  ELSE <<NULL, NULL, NULL>>

\* C14: the period resolver applies matchers 1..8 in strict priority order
\* and returns the first that succeeds, wherever the matches lie in the
\* text; when the week-marker forms 1..5 all fail it still tries the label,
\* the long-form date and the file name, each giving the reference date.
C14_PriorityOrder ==
  doc_pc = "done" =>
    IF entry = "surveillance" THEN week_info = MatcherResult(FirstMatcher)
    ELSE week_info[1] = MatcherResult(FirstMatcher)[1]

\* C15: for a week marker Y年第W周（M1月D1日-M2月D2日） the resolver yields
\* reference_date Y-M1-D1, target_end_date Y-M2-D2 and the week label
\* "Y-WW", and every emitted record carries that label as report_week.
C15_RangeMarker ==
  (doc_pc = "done" /\ entry = "surveillance" /\ OnlyMarker("range")) =>
    LET m == TheMarker
    IN  /\ week_info = <<datestr(m.year, m.start[2], m.start[3]),
                         datestr(m.year, m.end[2], m.end[3]),
                         week_iso(m.year, m.week)>>
        /\ \A j \in 1 .. Len(doc_results) :
             doc_results[j].report_week = week_iso(m.year, m.week)

\* the Thursdays of year y up to ordinal t
Thursdays(y, t) == { k \in ymd2ord(y, 1, 1) .. t : k % 7 = 4 }

\* w is an ISO week of year y: y has a w-th Thursday
ValidIsoWeek(y, w) == 1 <= w /\ w <= Cardinality(Thursdays(y, ymd2ord(y, 12, 31)))

\* the date string d is the Monday of ISO week w of year y: a Monday whose
\* Thursday is the w-th Thursday of y
MondayOfIsoWeek(d, y, w) ==
  LET n == to_datetime_iso(d)
  IN  /\ n # NaT
      /\ n % 7 = 1
      /\ n + 3 <= ymd2ord(y, 12, 31)
      /\ Cardinality(Thursdays(y, n + 3)) = w

\* C16: for a bare marker Y年第W周 (no higher-priority matcher succeeds) the
\* resolver returns the Monday of ISO week W of year Y and the Sunday six
\* days later; when W is not an ISO week of Y both dates are null and the
\* week number is still returned.
C16_BareMarker ==
  (doc_pc = "done" /\ entry = "surveillance" /\ OnlyMarker("bare")) =>
    LET m == TheMarker
    IN  IF ValidIsoWeek(m.year, m.week)
        THEN /\ MondayOfIsoWeek(week_info[1], m.year, m.week)
             /\ to_datetime_iso(week_info[2]) = to_datetime_iso(week_info[1]) + 6
             /\ week_info[3] = m.week
        ELSE week_info = <<NULL, NULL, m.week>>

\* a document with the bare marker 2025年第6周 resolved to 2025-02-03, 2025-02-09
C16_Witness ==
  /\ doc_pc = "done"
  /\ entry = "surveillance"
  /\ OnlyMarker("bare")
  /\ TheMarker.year = 2025
  /\ TheMarker.week = 6
  /\ week_info = <<datestr(2025, 2, 3), datestr(2025, 2, 9), 6>>

\* no matcher matches the document
NoMatcher == FirstMatcher = 0

\* C17: when no period matcher matches, reference_date, target_end_date and
\* report_week are all null and a record is still produced for every data
\* row whose entity name resolves.
C17_UnparsablePeriod ==
  (doc_pc = "done" /\ entry = "surveillance" /\ NoMatcher) =>
    /\ week_info = <<NULL, NULL, NULL>>
    /\ \A i \in 1 .. Len(df.rows) :
         df.rows[i].pathogen \in DataNames =>
           \E j \in 1 .. Len(doc_results) :
              /\ doc_results[j].pathogen = df.rows[i].pathogen
              /\ doc_results[j].reference_date = NULL
              /\ doc_results[j].target_end_date = NULL
              /\ doc_results[j].report_week = NULL

\* ------------------------------------------------------ column resolver
\* extract_latest_week_data.pick_latest_col (src/extract_data_from_md.py) and
\* flatten_rows.pick_percent_and_delta (extract_data_from_md.py).
\* A column label is what the resolvers look for in it:
\*   family  "ili" / "sari": the label holds a keyword of ILI_KEYS / SARI_KEYS
\*   weeks   the week numbers the label embeds ("第19周" embeds 19)
\*   percent the label holds "阳性率" or a percent sign
\*   delta   the label holds "较上周" (change against the previous week)

\* columns of a table
MaxCols == 3

Families == {"ili", "sari"}

\* a delta label embeds no week number
Labels ==
  { [family |-> f, weeks |-> ws, percent |-> p, delta |-> d] :
      f \in Families \cup {"other"}, ws \in SUBSET {19, 22}, p \in BOOLEAN, d \in BOOLEAN }
  \ { l \in [family : Families \cup {"other"}, weeks : SUBSET {19, 22},
             percent : BOOLEAN, delta : BOOLEAN] : l.delta /\ l.weeks # {} }

\* max(ws)
max(ws) == CHOOSE w \in ws : \A v \in ws : v <= w

\* pick_latest_col(keys): (best_col, best_week), a column being its position
\* in cols and 0 standing for None
pick_latest_col(cs, f) ==
  LET F[i \in 0 .. Len(cs)] ==
        IF i = 0 THEN [col |-> 0, week |-> NULL]
        ELSE LET best == F[i - 1]
                 c == cs[i]
             IN  IF c.family # f THEN best
                 ELSE IF c.weeks # {}
                 THEN IF best.week = NULL \/ max(c.weeks) > best.week
                      THEN [col |-> i, week |-> max(c.weeks)]
                      ELSE best
                 ELSE IF best.col = 0 THEN [col |-> i, week |-> best.week]
                 ELSE best
  IN  F[Len(cs)]

\* the first position in set S, 0 when S is empty
first(S) == IF S = {} THEN 0 ELSE CHOOSE i \in S : \A j \in S : i <= j

\* pick_percent_and_delta(keys): (c_percent, c_delta)
pick_percent_and_delta(cs, f) ==
  LET of_family == { i \in 1 .. Len(cs) : cs[i].family = f }
      c_percent == first({ i \in of_family : cs[i].weeks # {} \/ cs[i].percent })
      c_delta == first({ i \in of_family : cs[i].delta })
  IN  [col |-> IF c_percent = 0 /\ Cardinality(of_family) = 1
               THEN first(of_family) ELSE c_percent,
       delta |-> c_delta]

InitCols ==
  /\ MergeInit
  /\ RestIdle
  /\ impl = "pipeline"
  /\ entry = "md"
  /\ BatchIdle
  /\ DocIdle
  /\ cols \in UNION { [1 .. n -> Labels] : n \in 1 .. MaxCols }
  /\ picked = <<>>
  /\ TableIdle

\* c_ili, w_ili = pick_latest_col(ILI_KEYS); c_sari, w_sari = pick_latest_col(SARI_KEYS)
PickLatestCol(f) ==
  /\ cols # <<>>
  /\ picked = <<>>
  /\ picked' = [by |-> "pick_latest_col", family |-> f,
                col |-> pick_latest_col(cols, f).col,
                week |-> pick_latest_col(cols, f).week, delta |-> 0]
  /\ UNCHANGED <<impl, files, pc, locals, result, ghosts, runvars>>
  /\ UNCHANGED <<entry, batchvars, docvars, cols, tablevars, rest>>

\* ili_percent_col, ili_delta_col, _ = pick_percent_and_delta(ILI_KEYS); the same for SARI_KEYS
PickPercentAndDelta(f) ==
  /\ cols # <<>>
  /\ picked = <<>>
  /\ picked' = [by |-> "pick_percent_and_delta", family |-> f,
                col |-> pick_percent_and_delta(cols, f).col,
                week |-> NULL, delta |-> pick_percent_and_delta(cols, f).delta]
  /\ UNCHANGED <<impl, files, pc, locals, result, ghosts, runvars>>
  /\ UNCHANGED <<entry, batchvars, docvars, cols, tablevars, rest>>

NextCols ==
  \/ \E f \in Families : PickLatestCol(f)
  \/ \E f \in Families : PickPercentAndDelta(f)

SpecCols == InitCols /\ [][NextCols]_vars

\* the columns of the family being resolved that embed a week number
WeekCols == { i \in 1 .. Len(cols) : cols[i].family = picked.family /\ cols[i].weeks # {} }

\* C18: among the columns of an indicator family the resolver selects the
\* one whose label embeds the largest week number, the first of them when
\* the number is shared; a column that embeds a week number is preferred to
\* one that embeds none, whatever the column order.
C18_LatestWeek ==
  (picked # <<>> /\ WeekCols # {}) =>
     /\ picked.col \in WeekCols
     /\ \A i \in WeekCols :
          /\ max(cols[i].weeks) <= max(cols[picked.col].weeks)
          /\ max(cols[i].weeks) = max(cols[picked.col].weeks) => picked.col <= i

\* C19: a delta column is never selected as the primary value column of an
\* indicator family, also when it is the only or the first column of the
\* family and no column embeds a week number.
C19_DeltaNeverPrimary ==
  (picked # <<>> /\ picked.col # 0) => ~cols[picked.col].delta

\* ------------------------------------------------------- table selection
\* pick_table1 and score_table of src/extract_data_from_md.py.
\* A table is what score_table looks at: the keyword families found in its
\* column names (cols) and in its first two rows (top), and its number of
\* rows.

\* pipe tables and markup tables in one document
MaxPipeTables == 2
MaxHtmlTables == 1

\* 0 and 2 rows: without and with the two top rows; 10 and 12: at and over
\* the cap of the row bonus
Tables ==
  { t \in [cols : { {}, {"pathogen"}, {"pathogen", "ili", "sari"} },
           top : { {}, {"pathogen", "ili", "sari"} },
           nrows : {0, 2, 10, 12}] :
      t.nrows = 0 => t.top = {} }

\* to_dataframe_from_pipe wants two lines at least, a header and a row: only
\* a markup table can have no rows
PipeTables == { t \in Tables : t.nrows >= 1 }

score_table(t) ==
    (IF "pathogen" \in t.cols THEN 4 ELSE 0)
  + (IF "ili" \in t.cols THEN 3 ELSE 0)
  + (IF "sari" \in t.cols THEN 3 ELSE 0)
  + (IF t.nrows >= 2
     THEN   (IF "pathogen" \in t.top THEN 2 ELSE 0)
          + (IF "ili" \in t.top THEN 2 ELSE 0)
          + (IF "sari" \in t.top THEN 2 ELSE 0)
     ELSE 0)
  + (IF t.nrows < 10 THEN t.nrows ELSE 10)

\* a later candidate replacing an earlier one of the same score
improves_or_ties(sc, best) == sc >= best

\* if sc > best_score
improves(sc, best) == sc > best

\* The candidates of a document with the pipe tables pipe and the markup
\* tables html: the first pipe table after the "表1" label, all pipe tables,
\* the markup tables.  label = 0: no label; label = k: the label stands
\* before pipe table k and after table k - 1 (after the last table when
\* k = Len(pipe) + 1).
candidates_of(pipe, html, label) ==
  (IF label \in 1 .. Len(pipe) THEN <<pipe[label]>> ELSE <<>>) \o pipe \o html

InitTable ==
  /\ MergeInit
  /\ RestIdle
  /\ impl = "pipeline"
  /\ entry = "md"
  /\ BatchIdle
  /\ DocIdle
  /\ ColsIdle
  /\ \E pipe \in UNION { [1 .. n -> PipeTables] : n \in 0 .. MaxPipeTables },
        html \in UNION { [1 .. n -> Tables] : n \in 0 .. MaxHtmlTables } :
       \E label \in 0 .. (Len(pipe) + 1) :
          candidates = candidates_of(pipe, html, label)
  /\ cand_i = 0
  /\ best_df = 0
  /\ best_score = -1

\* one turn of 'for df in candidates'
ScoreCandidate ==
  /\ cand_i < Len(candidates)
  /\ cand_i' = cand_i + 1
  /\ LET sc == score_table(candidates[cand_i + 1])
     IN  IF improves(sc, best_score)
         THEN best_df' = cand_i + 1 /\ best_score' = sc
         ELSE UNCHANGED <<best_df, best_score>>
  /\ UNCHANGED <<impl, files, pc, locals, result, ghosts, runvars>>
  /\ UNCHANGED <<entry, batchvars, docvars, colvars, candidates, rest>>

\* 'if not candidates: return None, []', or the return after the loop;
\* cand_i past the last candidate stands for pick_table1 having returned
ReturnBest ==
  /\ cand_i = Len(candidates)
  /\ cand_i' = Len(candidates) + 1
  /\ UNCHANGED <<impl, files, pc, locals, result, ghosts, runvars>>
  /\ UNCHANGED <<entry, batchvars, docvars, colvars, candidates, best_df, best_score, rest>>

NextTable == ScoreCandidate \/ ReturnBest

SpecTable == InitTable /\ [][NextTable]_vars

\* pick_table1 has returned a table
Picked == cand_i = Len(candidates) + 1 /\ candidates # <<>>

C21_NoTableAtZero ==
  (/\ cand_i = Len(candidates) + 1
   /\ \A j \in 1 .. Len(candidates) : score_table(candidates[j]) <= 0)
  => best_df = 0


\* ----------------------------------------------------- header normalizer
\* normalize_two_row_header_flexible (src/src/extract_data_from_md.py) and
\* normalize_two_row_header (src/extract_data_from_md.py).
\* A cell is one of
\*   "nan"       an empty cell, NaN in the data frame
\*   "pathogen"  病原体
\*   "Pathogen"  Pathogen, a keyword of PATHOGEN_KEYS other than 病原体
\*   "ili"       门急诊流感样病例
\*   "week"      第31周
\*   "flu"       流感病毒, the name of a data row
\* and "" is the empty string.  A column label is a tuple: <<a>> the label a,
\* <<a, b>> the composite label "a|b".  No cell holds inner white space, so
\* re.sub(r"\s+", "", c) leaves it as it is.

\* columns, and rows, of a table handed to the normalizer
MaxHeadCols == 2
MaxHeadRows == 3

HeadCells == {"nan", "pathogen", "Pathogen", "ili", "week", "flu"}

\* the tables of n columns and m rows
HeadTables(n, m) ==
  { [columns |-> [i \in 1 .. n |-> <<"header", i>>], rows |-> rs] :
      rs \in [1 .. m -> [1 .. n -> HeadCells]] }

\* any(k in c for k in PATHOGEN_KEYS)
in_PATHOGEN_KEYS(c) == c \in {"pathogen", "Pathogen"}

\* re.search(r"第?\s*\d{1,2}\s*周", c)
has_week_number(c) == c = "week"

\* ("" if (isinstance(x, float) and pd.isna(x)) else str(x)).strip()
str_or_empty(x) == IF x = "nan" THEN "" ELSE x

\* the label of one column without the relabelling to 病原体
new_col_sublabel(a1, b1) ==
  IF b1 # "" /\ a1 # "" /\ b1 # a1 THEN <<a1, b1>>
  ELSE IF a1 # "" THEN <<a1>>
  ELSE <<b1>>

\* the body of 'for a,b in zip(row0, row1)'
new_col(a1, b1) ==
  IF a1 = "" /\ in_PATHOGEN_KEYS(b1) THEN <<"pathogen">>
  ELSE IF b1 # "" /\ a1 # "" /\ b1 # a1 THEN <<a1, b1>>
  ELSE IF a1 # "" THEN <<a1>>
  ELSE <<b1>>

normalize_two_row_header_flexible(t) ==
  IF Len(t.rows) >= 2
  THEN LET n == Len(t.columns)
           row0 == [i \in 1 .. n |-> str_or_empty(t.rows[1][i])]
           row1 == [i \in 1 .. n |-> str_or_empty(t.rows[2][i])]
           has_week == \E i \in 1 .. n : has_week_number(row0[i]) \/ has_week_number(row1[i])
           row1_has_pathogen == in_PATHOGEN_KEYS(row1[1])
       IN  IF has_week /\ (row1_has_pathogen \/ in_PATHOGEN_KEYS(row0[1]))
           THEN [columns |-> [i \in 1 .. n |-> new_col(row0[i], row1[i])],
                 rows |-> SubSeq(t.rows, 3, Len(t.rows))]
           ELSE t
  ELSE t

\* row0 and row1 are [str(x).strip() ...]: an empty cell is the string "nan"
normalize_two_row_header(t) ==
  IF Len(t.rows) >= 2
  THEN LET n == Len(t.columns)
           row0 == t.rows[1]
           row1 == t.rows[2]
       IN  IF in_PATHOGEN_KEYS(row0[1]) /\ in_PATHOGEN_KEYS(row1[1])
           THEN [columns |-> [i \in 1 .. n |->
                                IF row1[i] # "" /\ row1[i] # row0[i]
                                THEN <<row0[i], row1[i]>>
                                ELSE <<row0[i]>>],
                 rows |-> SubSeq(t.rows, 3, Len(t.rows))]
           ELSE t
  ELSE t

InitHead ==
  /\ MergeInit
  /\ impl = "pipeline"
  /\ entry = "md"
  /\ BatchIdle
  /\ DocIdle
  /\ ColsIdle
  /\ TableIdle
  /\ RenderIdle
  /\ DagIdle
  /\ StagesIdle
  /\ \E n \in 1 .. MaxHeadCols, m \in 0 .. MaxHeadRows : raw_df \in HeadTables(n, m)
  /\ norm_df = <<>>

NormalizeFlexible ==
  /\ norm_df = <<>>
  /\ norm_df' = [by |-> "normalize_two_row_header_flexible",
                 df |-> normalize_two_row_header_flexible(raw_df)]
  /\ UNCHANGED <<impl, files, pc, locals, result, ghosts, runvars>>
  /\ UNCHANGED <<entry, batchvars, docvars, colvars, tablevars, raw_df, stagevars, dagvars, rendervars>>

NormalizeTwoRow ==
  /\ norm_df = <<>>
  /\ norm_df' = [by |-> "normalize_two_row_header",
                 df |-> normalize_two_row_header(raw_df)]
  /\ UNCHANGED <<impl, files, pc, locals, result, ghosts, runvars>>
  /\ UNCHANGED <<entry, batchvars, docvars, colvars, tablevars, raw_df, stagevars, dagvars, rendervars>>

NextHead == NormalizeFlexible \/ NormalizeTwoRow

SpecHead == InitHead /\ [][NextHead]_vars

\* rows 0 and 1 of the table hold a week number, and the first cell of one of
\* them an entity-name keyword
TwoRowHeader ==
  /\ Len(raw_df.rows) >= 2
  /\ \E r \in 1 .. 2 : \E i \in 1 .. Len(raw_df.columns) : has_week_number(raw_df.rows[r][i])
  /\ \E r \in 1 .. 2 : in_PATHOGEN_KEYS(raw_df.rows[r][1])

\* C22: the normalizer collapses rows 0 and 1 into labels and strips them
\* from the data exactly when the two rows hold a week number and the first
\* cell of one of them matches an entity-name keyword; otherwise the table
\* comes back unchanged; collapsed, there are as many labels as columns of
\* the remaining data.
C22_TwoRowDetection ==
  norm_df # <<>> =>
    IF TwoRowHeader
    THEN /\ norm_df.df.rows = SubSeq(raw_df.rows, 3, Len(raw_df.rows))
         /\ norm_df.df.columns # raw_df.columns
         /\ Len(norm_df.df.columns) = Len(raw_df.columns)
         /\ \A i \in 1 .. Len(norm_df.df.rows) :
              Len(norm_df.df.rows[i]) = Len(norm_df.df.columns)
    ELSE norm_df.df = raw_df

\* C23: in a table detected as having a two-row header whose row 1 begins
\* with an entity-name keyword under an empty first cell of row 0, the
\* normalizer labels the first column 病原体, the canonical entity-name label.
C23_CanonicalLabel ==
  (/\ norm_df # <<>>
   /\ norm_df.by = "normalize_two_row_header_flexible"
   /\ TwoRowHeader
   /\ raw_df.rows[1][1] = "nan"
   /\ in_PATHOGEN_KEYS(raw_df.rows[2][1]))
  => norm_df.df.columns[1] = <<"pathogen">>

\* the sub-label under the empty cell is Pathogen, not 病原体 itself, and data
\* rows remain
C23_Witness ==
  /\ norm_df # <<>>
  /\ norm_df.by = "normalize_two_row_header_flexible"
  /\ TwoRowHeader
  /\ raw_df.rows[1][1] = "nan"
  /\ raw_df.rows[2][1] = "Pathogen"
  /\ norm_df.df.columns[1] = <<"pathogen">>
  /\ Len(norm_df.df.rows) = 1


\* the labels the row flattener is to skip: totals 合计 and 总计, age brackets,
\* footnote markers
Stoplist == {"total", "sum", "age", "note"}

\* C24: every record has a non-empty name that is the entity cell of a row
\* and no stoplist label; a row whose entity cell is empty or missing gives no
\* record; the records follow the order of their rows.
C24_RowsSkippedInOrder ==
  doc_pc = "done" =>
    /\ \A j \in 1 .. Len(doc_results) :
         doc_results[j].pathogen \notin Stoplist \cup {"", "nan"}
    /\ \E f \in [1 .. Len(doc_results) -> 1 .. Len(df.rows)] :
         /\ \A j \in 1 .. Len(doc_results) :
              doc_results[j].pathogen = df.rows[f[j]].pathogen
         /\ \A j, k \in 1 .. Len(doc_results) : j < k => f[j] < f[k]


\* ------------------------------------------------- the stages of one URL
\* The loop body of main() of src/main_pipeline.py: download, convert,
\* extract, organize, merge.  The merge is taken as one step here; its own
\* steps and failures are those of Spec.

\* URLs in the list
MaxStageUrls == 2

\* what a command run by run_command can do: return a non-zero status, write
\* its output file and return 0, or return 0 without having written it
\* (save_web_to_pdf prints [FAIL] and goes on; the extractor returns when it
\* finds no file or no data)
CommandOutcomes == {"failed", "written", "nothing"}

NoTarget == [dirs |-> FALSE, pdf |-> FALSE, md |-> FALSE, csv |-> Absent]

\* the temporary files a URL can have from an earlier run
TempFiles(doc) ==
  { [pdf |-> FALSE, md |-> FALSE, csv |-> Absent],
    [pdf |-> TRUE, md |-> FALSE, csv |-> Absent],
    [pdf |-> TRUE, md |-> TRUE, csv |-> Absent] }
  \cup { [pdf |-> TRUE, md |-> TRUE, csv |-> Table(b)] : b \in BatchesOf(doc, 1) }

InitStages ==
  /\ impl = "pipeline"
  /\ all_csv = Absent
  /\ covid_csv = Absent
  /\ pc = [p \in Procs |-> "start"]
  /\ \E n \in 1 .. MaxStageUrls : urls_left = [p \in Procs |-> IF p = 1 THEN n ELSE 0]
  /\ new_csv = [p \in Procs |-> <<>>]
  /\ new_df = [p \in Procs |-> <<>>]
  /\ combined_df = [p \in Procs |-> <<>>]
  /\ combined_covid_df = [p \in Procs |-> <<>>]
  /\ result = [p \in Procs |-> TRUE]
  /\ outcome = [p \in Procs |-> "running"]
  /\ pre_all = [p \in Procs |-> Absent]
  /\ pre_covid = [p \in Procs |-> Absent]
  /\ any_failed = [p \in Procs |-> FALSE]
  /\ entry = "surveillance"
  /\ BatchIdle
  /\ DocIdle
  /\ ColsIdle
  /\ TableIdle
  /\ RenderIdle
  /\ DagIdle
  /\ HeadIdle
  /\ skip_download \in BOOLEAN
  /\ stage = "loop"
  /\ temp = <<>>
  /\ target = <<>>
  /\ events = <<>>

\* the top of the loop body: the file id is taken from the URL (or the URL
\* is skipped) and the three temporary paths are built
StartUrl ==
  /\ stage = "loop"
  /\ urls_left[1] > 0
  /\ \/ /\ stage' = "next"
        /\ temp' = <<>>
     \/ /\ temp' \in TempFiles(urls_left[1])
        /\ stage' = IF skip_download THEN "organize" ELSE "download"
  /\ target' = NoTarget
  /\ events' = <<>>
  /\ pre_all' = [pre_all EXCEPT ![1] = all_csv]
  /\ pre_covid' = [pre_covid EXCEPT ![1] = covid_csv]
  /\ UNCHANGED <<impl, files, pc, locals, result, runvars>>
  /\ UNCHANGED <<entry, batchvars, docvars, colvars, tablevars, headvars, skip_download, dagvars, rendervars>>

\* step 1: save_web_to_pdf.py, unless the PDF is there
Download ==
  /\ stage = "download"
  /\ IF temp.pdf
     THEN stage' = "convert" /\ UNCHANGED <<temp, events>>
     ELSE \E o \in CommandOutcomes :
            /\ stage' = IF o = "failed" THEN "next" ELSE "convert"
            /\ temp' = [temp EXCEPT !.pdf = (o = "written")]
            /\ events' = IF o = "failed" THEN Append(events, "failed")
                         ELSE IF o = "written" THEN Append(events, "download")
                         ELSE events
  /\ UNCHANGED <<impl, files, pc, locals, result, ghosts, runvars>>
  /\ UNCHANGED <<entry, batchvars, docvars, colvars, tablevars, headvars, skip_download, target, dagvars, rendervars>>

\* step 2: convert_pdf_to_md.py, unless the Markdown is there; without a
\* PDF the converter exits with status 2
Convert ==
  /\ stage = "convert"
  /\ IF temp.md
     THEN stage' = "extract" /\ UNCHANGED <<temp, events>>
     ELSE \E o \in IF temp.pdf THEN CommandOutcomes ELSE {"failed"} :
            /\ stage' = IF o = "failed" THEN "next" ELSE "extract"
            /\ temp' = [temp EXCEPT !.md = (o = "written")]
            /\ events' = IF o = "failed" THEN Append(events, "failed")
                         ELSE IF o = "written" THEN Append(events, "convert")
                         ELSE events
  /\ UNCHANGED <<impl, files, pc, locals, result, ghosts, runvars>>
  /\ UNCHANGED <<entry, batchvars, docvars, colvars, tablevars, headvars, skip_download, target, dagvars, rendervars>>

\* step 3: extract_surveillance_data.py, unless the CSV is there; without a
\* Markdown file, or without data in it, the extractor returns with status 0
\* and writes nothing
Extract ==
  /\ stage = "extract"
  /\ IF exists(temp.csv)
     THEN stage' = "organize" /\ UNCHANGED <<temp, events>>
     ELSE \E o \in IF temp.md THEN CommandOutcomes ELSE {"failed", "nothing"} :
            /\ stage' = IF o = "failed" THEN "next" ELSE "organize"
            /\ IF o = "written"
               THEN \E b \in BatchesOf(urls_left[1], 1) : temp' = [temp EXCEPT !.csv = Table(b)]
               ELSE UNCHANGED temp
            /\ events' = IF o = "failed" THEN Append(events, "failed")
                         ELSE IF o = "written" THEN Append(events, "extract")
                         ELSE events
  /\ UNCHANGED <<impl, files, pc, locals, result, ghosts, runvars>>
  /\ UNCHANGED <<entry, batchvars, docvars, colvars, tablevars, headvars, skip_download, target, dagvars, rendervars>>

\* steps 4 and 5: the target directories are made (named by the reference
\* date of the CSV, or by the file id) and the files that exist are copied
Organize ==
  /\ stage = "organize"
  /\ target' = [dirs |-> TRUE, pdf |-> temp.pdf, md |-> temp.md, csv |-> temp.csv]
  /\ events' = Append(events, "organize")
  /\ stage' = "merge"
  /\ UNCHANGED <<impl, files, pc, locals, result, ghosts, runvars>>
  /\ UNCHANGED <<entry, batchvars, docvars, colvars, tablevars, headvars, skip_download, temp, dagvars, rendervars>>

\* step 6: merge_to_main_data(target_csv, ...); without the file read_csv
\* raises and the merge returns False
Merge ==
  /\ stage = "merge"
  /\ IF exists(target.csv)
     THEN LET new == target.csv.rows
              covid_new_df == covid_filter(new)
          IN  /\ all_csv' = Table(all_table(new, all_csv))
              /\ IF covid_step_runs(covid_new_df, covid_csv)
                 THEN \E t \in sort_values_date(covid_rows(covid_new_df, covid_csv)) :
                        covid_csv' = Table(t)
                 ELSE UNCHANGED covid_csv
              /\ events' = Append(events, "merge")
     ELSE UNCHANGED <<files, events>>
  /\ stage' = "next"
  /\ UNCHANGED <<impl, pc, locals, result, ghosts, runvars>>
  /\ UNCHANGED <<entry, batchvars, docvars, colvars, tablevars, headvars, skip_download, temp, target, dagvars, rendervars>>

\* 'continue', or the end of the loop body: the next URL of the list
NextUrl ==
  /\ stage = "next"
  /\ urls_left' = [urls_left EXCEPT ![1] = urls_left[1] - 1]
  /\ stage' = "loop"
  /\ UNCHANGED <<impl, files, pc, locals, result, ghosts, outcome, any_failed>>
  /\ UNCHANGED <<entry, batchvars, docvars, colvars, tablevars, headvars, skip_download, temp, target, events, dagvars, rendervars>>

\* the list is done: main() returns 0
EndStages ==
  /\ stage = "loop"
  /\ urls_left[1] = 0
  /\ stage' = "ended"
  /\ outcome' = [outcome EXCEPT ![1] = "success"]
  /\ UNCHANGED <<impl, files, pc, locals, result, ghosts, urls_left, any_failed>>
  /\ UNCHANGED <<entry, batchvars, docvars, colvars, tablevars, headvars, skip_download, temp, target, events, dagvars, rendervars>>

NextStages ==
  \/ StartUrl
  \/ Download
  \/ Convert
  \/ Extract
  \/ Organize
  \/ Merge
  \/ NextUrl
  \/ EndStages

SpecStages == InitStages /\ [][NextStages]_vars

\* the place of a stage in download -> convert -> extract -> organize -> merge
StageRank(e) ==
  CASE e = "download" -> 1
    [] e = "convert" -> 2
    [] e = "extract" -> 3
    [] e = "organize" -> 4
    [] e = "merge" -> 5
    [] OTHER -> 0

\* the two tables are as they were when the current URL began
TablesUntouched == all_csv = pre_all[1] /\ covid_csv = pre_covid[1]

\* the extraction of the current URL is over and there is no CSV for it
NoCsvProduced ==
  /\ stage \in {"organize", "merge", "next"}
  /\ temp # <<>>
  /\ ~skip_download
  /\ "failed" \notin Range(events)
  /\ ~exists(temp.csv)

\* C25: the stages of a URL take effect in the order download, convert,
\* extract, organize, merge; once a command of the URL has failed, or no CSV
\* was produced for it, no later stage takes effect and both tables stay as
\* they were; the run ends only when every URL has had its turn.
C25_StagesInOrder ==
  /\ \A i, j \in 1 .. Len(events) :
       (i < j /\ events[i] # "failed" /\ events[j] # "failed")
         => StageRank(events[i]) < StageRank(events[j])
  /\ \A i \in 1 .. Len(events) :
       events[i] = "failed" => i = Len(events) /\ stage \in {"next", "loop", "ended"} /\ TablesUntouched
  /\ NoCsvProduced => (Range(events) \cap {"organize", "merge"} = {} /\ TablesUntouched)
  /\ stage = "ended" => urls_left[1] = 0


\* ------------------------------------------------------------ the DAG
\* cdc_covid19_data_update of airflow/dags/cdc_data_update_dag.py: one DAG
\* run, one step per task instance.  A link is a number; the CSV of link l
\* holds one row.

\* links on the site
MaxLinks == 2

Links == 1 .. MaxLinks

Tasks ==
  {"fetch_new_links", "check_new_links", "download_web_to_pdf", "convert_pdf_to_md",
   "extract_data_from_md", "organize_and_merge_data", "update_history_file",
   "send_completion_notification", "git_push_to_github"}

\* task_fetch_links >> task_check_links >> ... >> task_update_history;
\* [task_fetch_links, task_update_history] >> task_notify;
\* task_update_history >> task_git_push
upstream(t) ==
  CASE t = "fetch_new_links" -> {}
    [] t = "check_new_links" -> {"fetch_new_links"}
    [] t = "download_web_to_pdf" -> {"check_new_links"}
    [] t = "convert_pdf_to_md" -> {"download_web_to_pdf"}
    [] t = "extract_data_from_md" -> {"convert_pdf_to_md"}
    [] t = "organize_and_merge_data" -> {"extract_data_from_md"}
    [] t = "update_history_file" -> {"organize_and_merge_data"}
    [] t = "send_completion_notification" -> {"fetch_new_links", "update_history_file"}
    [] t = "git_push_to_github" -> {"update_history_file"}

\* every task downstream of check_new_links, directly or not
\* (get_flat_relatives(upstream=False))
downstream_of_check == Tasks \ {"fetch_new_links", "check_new_links"}

\* trigger_rule='all_success' (the default) and trigger_rule='all_done'
trigger_rule(t) == IF t = "send_completion_notification" THEN "all_done" ELSE "all_success"

Finished == {"success", "failed", "skipped", "upstream_failed"}

\* the scheduler lets task t run
runnable(t) ==
  /\ ti[t] = "none"
  /\ IF trigger_rule(t) = "all_done"
     THEN \A u \in upstream(t) : ti[u] \in Finished
     ELSE \A u \in upstream(t) : ti[u] = "success"

\* new_links.sort(reverse=True) of the links in S
sort_reverse(S) ==
  LET F[n \in 0 .. MaxLinks] ==
        IF n = 0 THEN <<>>
        ELSE IF n \in S THEN <<n>> \o F[n - 1] ELSE F[n - 1]
  IN  F[MaxLinks]

find_new_links(fetched, existing_links) == sort_reverse(fetched \ existing_links)

\* read_existing_links: the set of the lines of the file, empty when there is
\* no file (the rows of the history file are kept as a set)
read_existing_links(f) == IF exists(f) THEN f.rows ELSE {}

pushed(new_links, crawl_failed) ==
  [new_links |-> new_links, link_count |-> Len(new_links),
   has_new_links |-> (new_links # <<>>), crawl_failed |-> crawl_failed]

\* what fetch_new_links_task pushes.  With no fetched link, no known link and
\* no URL in the fallback file, no branch of 'if not fetched_links' returns
\* (the pushes written for that case follow a return), and control reaches
\* the code for a successful crawl.
fetch_new_links_task(fetched, history, fallback) ==
  LET existing_links == read_existing_links(history)
  IN  IF fetched = {} /\ existing_links # {} THEN pushed(<<>>, TRUE)
      ELSE IF fetched = {} /\ exists(fallback) /\ fallback.rows # <<>>
      THEN pushed(fallback.rows, TRUE)
      ELSE pushed(find_new_links(fetched, existing_links), FALSE)

\* the CSV the extractor writes for link l
CsvOf(l) == <<Row(<<l, l + 6, 1>>, l, 1)>>

\* merge_csv_to_main for the links of the sequence s, one after the other
RECURSIVE merge_all(_, _)
merge_all(s, f) ==
  IF s = <<>> THEN f
  ELSE merge_all(Tail(s), Table(all_table(CsvOf(Head(s)), f)))

RECURSIVE merge_all_covid(_, _)
merge_all_covid(s, f) ==
  IF s = <<>> THEN {f}
  ELSE UNION { merge_all_covid(Tail(s), Table(t)) :
                 t \in sort_values_date(covid_rows(covid_filter(CsvOf(Head(s))), f)) }

NoTmp == [pdf |-> {}, md |-> {}, csv |-> {}]

InitDag ==
  /\ impl = "dag"
  /\ all_csv = Absent
  /\ covid_csv = Absent
  /\ pc = [p \in Procs |-> "start"]
  /\ urls_left = [p \in Procs |-> 0]
  /\ new_csv = [p \in Procs |-> <<>>]
  /\ new_df = [p \in Procs |-> <<>>]
  /\ combined_df = [p \in Procs |-> <<>>]
  /\ combined_covid_df = [p \in Procs |-> <<>>]
  /\ result = [p \in Procs |-> TRUE]
  /\ outcome = [p \in Procs |-> "running"]
  /\ pre_all = [p \in Procs |-> Absent]
  /\ pre_covid = [p \in Procs |-> Absent]
  /\ any_failed = [p \in Procs |-> FALSE]
  /\ entry = "surveillance"
  /\ BatchIdle
  /\ DocIdle
  /\ ColsIdle
  /\ TableIdle
  /\ RenderIdle
  /\ HeadIdle
  /\ StagesIdle
  /\ ti = [t \in Tasks |-> "none"]
  /\ xcom = <<>>
  /\ fetched_links \in SUBSET Links
  /\ history_file \in {[kind |-> "absent", rows |-> {}]}
                        \cup { [kind |-> "table", rows |-> S] : S \in SUBSET Links }
  /\ url_file \in {Absent} \cup { [kind |-> "table", rows |-> sort_reverse(S)] : S \in SUBSET Links }
  /\ tmp = NoTmp
  /\ merged = {}
  /\ order = <<>>
  /\ pre_history = history_file

\* the callable of task t has run and the task ended in state s
ran(t, s) ==
  /\ ti' = [ti EXCEPT ![t] = s]
  /\ order' = Append(order, t)

FetchNewLinks ==
  /\ runnable("fetch_new_links")
  /\ xcom' = fetch_new_links_task(fetched_links, history_file, url_file)
  /\ ran("fetch_new_links", "success")
  /\ UNCHANGED <<impl, files, pc, locals, result, ghosts, runvars>>
  /\ UNCHANGED <<entry, batchvars, docvars, colvars, tablevars, headvars, stagevars, rendervars>>
  /\ UNCHANGED <<fetched_links, history_file, url_file, tmp, merged, pre_history>>

\* the ShortCircuitOperator: on False every downstream task is skipped,
\* whatever its trigger rule
CheckNewLinks ==
  /\ runnable("check_new_links")
  /\ order' = Append(order, "check_new_links")
  /\ IF ~xcom.has_new_links \/ xcom.link_count = 0
     THEN /\ ti' = [t \in Tasks |->
                      IF t = "check_new_links" THEN "success"
                      ELSE IF t \in downstream_of_check THEN "skipped"
                      ELSE ti[t]]
          /\ UNCHANGED xcom
     ELSE /\ ti' = [ti EXCEPT !["check_new_links"] = "success"]
          /\ xcom' = [new_links |-> xcom.new_links, link_count |-> xcom.link_count,
                      has_new_links |-> xcom.has_new_links, crawl_failed |-> xcom.crawl_failed,
                      url_list |-> xcom.new_links, url_count |-> xcom.link_count]
  /\ UNCHANGED <<impl, files, pc, locals, result, ghosts, runvars>>
  /\ UNCHANGED <<entry, batchvars, docvars, colvars, tablevars, headvars, stagevars, rendervars>>
  /\ UNCHANGED <<fetched_links, history_file, url_file, tmp, merged, pre_history>>

\* a failed download is logged and the loop goes on; save_web_to_pdf can also
\* return 0 without a PDF
DownloadWebToPdf ==
  /\ runnable("download_web_to_pdf")
  /\ \E S \in SUBSET Range(xcom.url_list) : tmp' = [tmp EXCEPT !.pdf = S]
  /\ ran("download_web_to_pdf", "success")
  /\ UNCHANGED <<impl, files, pc, locals, result, ghosts, runvars>>
  /\ UNCHANGED <<entry, batchvars, docvars, colvars, tablevars, headvars, stagevars, rendervars>>
  /\ UNCHANGED <<xcom, fetched_links, history_file, url_file, merged, pre_history>>

ConvertPdfToMd ==
  /\ runnable("convert_pdf_to_md")
  /\ \E S \in SUBSET tmp.pdf : tmp' = [tmp EXCEPT !.md = S]
  /\ ran("convert_pdf_to_md", "success")
  /\ UNCHANGED <<impl, files, pc, locals, result, ghosts, runvars>>
  /\ UNCHANGED <<entry, batchvars, docvars, colvars, tablevars, headvars, stagevars, rendervars>>
  /\ UNCHANGED <<xcom, fetched_links, history_file, url_file, merged, pre_history>>

ExtractDataFromMd ==
  /\ runnable("extract_data_from_md")
  /\ \E S \in SUBSET tmp.md : tmp' = [tmp EXCEPT !.csv = S]
  /\ ran("extract_data_from_md", "success")
  /\ UNCHANGED <<impl, files, pc, locals, result, ghosts, runvars>>
  /\ UNCHANGED <<entry, batchvars, docvars, colvars, tablevars, headvars, stagevars, rendervars>>
  /\ UNCHANGED <<xcom, fetched_links, history_file, url_file, merged, pre_history>>

\* the CSV files are merged in the order of the glob; a merge that raises is
\* logged and the loop goes on; then update/tmp is removed
OrganizeAndMergeData ==
  /\ runnable("organize_and_merge_data")
  /\ IF tmp.csv = {}
     THEN UNCHANGED <<files, tmp, merged>>
     ELSE \E s \in UNION { [1 .. n -> tmp.csv] : n \in 0 .. Cardinality(tmp.csv) } :
            /\ \A i, j \in 1 .. Len(s) : i # j => s[i] # s[j]
            /\ all_csv' = merge_all(s, all_csv)
            /\ covid_csv' \in merge_all_covid(s, covid_csv)
            /\ merged' = Range(s)
            /\ tmp' = NoTmp
  /\ ran("organize_and_merge_data", "success")
  /\ UNCHANGED <<impl, pc, locals, result, ghosts, runvars>>
  /\ UNCHANGED <<entry, batchvars, docvars, colvars, tablevars, headvars, stagevars, rendervars>>
  /\ UNCHANGED <<xcom, fetched_links, history_file, url_file, pre_history>>

\* every new link is appended, or the write raises and the task fails
UpdateHistoryFile ==
  /\ runnable("update_history_file")
  /\ \/ /\ history_file' =
             IF xcom.new_links = <<>> THEN history_file
             ELSE Table(read_existing_links(history_file) \cup Range(xcom.new_links))
        /\ ran("update_history_file", "success")
     \/ /\ xcom.new_links # <<>>
        /\ UNCHANGED history_file
        /\ ran("update_history_file", "failed")
  /\ UNCHANGED <<impl, files, pc, locals, result, ghosts, runvars>>
  /\ UNCHANGED <<entry, batchvars, docvars, colvars, tablevars, headvars, stagevars, rendervars>>
  /\ UNCHANGED <<xcom, fetched_links, url_file, tmp, merged, pre_history>>

SendCompletionNotification ==
  /\ runnable("send_completion_notification")
  /\ ran("send_completion_notification", "success")
  /\ UNCHANGED <<impl, files, pc, locals, result, ghosts, runvars>>
  /\ UNCHANGED <<entry, batchvars, docvars, colvars, tablevars, headvars, stagevars, rendervars>>
  /\ UNCHANGED <<xcom, fetched_links, history_file, url_file, tmp, merged, pre_history>>

GitPushToGithub ==
  /\ runnable("git_push_to_github")
  /\ \E s \in {"success", "failed"} : ran("git_push_to_github", s)
  /\ UNCHANGED <<impl, files, pc, locals, result, ghosts, runvars>>
  /\ UNCHANGED <<entry, batchvars, docvars, colvars, tablevars, headvars, stagevars, rendervars>>
  /\ UNCHANGED <<xcom, fetched_links, history_file, url_file, tmp, merged, pre_history>>

\* a task with the rule all_success whose upstream task failed does not run
UpstreamFailed ==
  /\ \E t \in Tasks :
       /\ ti[t] = "none"
       /\ trigger_rule(t) = "all_success"
       /\ \E u \in upstream(t) : ti[u] \in {"failed", "upstream_failed"}
       /\ ti' = [ti EXCEPT ![t] = "upstream_failed"]
  /\ UNCHANGED <<impl, files, pc, locals, result, ghosts, runvars>>
  /\ UNCHANGED <<entry, batchvars, docvars, colvars, tablevars, headvars, stagevars, rendervars>>
  /\ UNCHANGED <<xcom, fetched_links, history_file, url_file, tmp, merged, order, pre_history>>

NextDag ==
  \/ FetchNewLinks
  \/ CheckNewLinks
  \/ DownloadWebToPdf
  \/ ConvertPdfToMd
  \/ ExtractDataFromMd
  \/ OrganizeAndMergeData
  \/ UpdateHistoryFile
  \/ SendCompletionNotification
  \/ GitPushToGithub
  \/ UpstreamFailed

SpecDag == InitDag /\ [][NextDag]_vars


\* ------------------------------------------------- properties of the DAG
\* the tasks behind check_new_links, in the order of the chain
Chain ==
  <<"download_web_to_pdf", "convert_pdf_to_md", "extract_data_from_md",
    "organize_and_merge_data", "update_history_file", "git_push_to_github">>

\* check_new_links has returned False
ShortCircuited ==
  /\ ti["check_new_links"] = "success"
  /\ ~xcom.has_new_links \/ xcom.link_count = 0

\* every task of the run has ended
RunDone == \A t \in Tasks : ti[t] \in Finished

\* C26: when fetch_new_links reports no new link, none of the six tasks from
\* download_web_to_pdf to git_push_to_github runs, the tables and the history
\* file stay as they were, and send_completion_notification still runs; with
\* new links the six tasks run in the order of the chain.
C26_ShortCircuit ==
  /\ ShortCircuited =>
       /\ Range(order) \cap Range(Chain) = {}
       /\ all_csv = pre_all[1]
       /\ covid_csv = pre_covid[1]
       /\ history_file = pre_history
       /\ RunDone => "send_completion_notification" \in Range(order)
  /\ LET done == SelectSeq(order, LAMBDA t : t \in Range(Chain))
     IN  done = SubSeq(Chain, 1, Len(done))

\* C27: every link update_history_file appended to the history file had its
\* records merged into the historical table in this run.
C27_RecordedOnlyIfMerged ==
  ti["update_history_file"] = "success" =>
    \A l \in history_file.rows \ pre_history.rows : l \in merged

\* C28: fetch_new_links_task pushes new_links, link_count, has_new_links and
\* crawl_failed on every path, with crawl_failed true whenever the crawl
\* returned no link and false only when it returned one at least.
C28_CrawlFailedReported ==
  ti["fetch_new_links"] = "success" =>
    /\ {"new_links", "link_count", "has_new_links", "crawl_failed"} \subseteq DOMAIN xcom
    /\ fetched_links = {} => xcom.crawl_failed
    /\ ~xcom.crawl_failed => fetched_links # {}


\* ------------------------------------------------- direction of a period
\* C30: every period extract_week_info_from_title returns with both dates
\* non-null is a forward range: reference_date is not later than
\* target_end_date, whichever pattern matched, also when the range of a
\* single-year form crosses a year boundary (12月30日-1月5日).
C30_ForwardRange ==
  (doc_pc = "done" /\ entry = "surveillance"
     /\ week_info[1] # NULL /\ week_info[2] # NULL) =>
    week_info[1] <= week_info[2]


\* ------------------------------------------------------- rendering to PDF
\* save_web_to_pdf.py: main() creates one render_one coroutine per URL of the
\* list and gathers them; a semaphore of `concurrency` permits bounds how
\* many are inside `async with sem`.  A coroutine runs without interruption
\* from one await to the next, so the steps of a task are: entering the
\* semaphore; loading the page (new_page ... emulate_media); choosing the
\* path, which ends where page.pdf is awaited; page.pdf writing the file;
\* closing the page and leaving the semaphore.
\*
\* A URL is the stem and the extension of its last path segment.  A base name
\* is the tuple of the parts a point separates: <<"a">> is "a", <<"a", "php">>
\* is "a.php".  No base name holds a character unique_pdf_path replaces and
\* none ends in "-" and a number.  A path is a base name and the number i
\* after it: base.pdf for 0, base-i.pdf for i >= 1.

\* URLs of one run
MaxRenders == 3
\* permits of the semaphore (--concurrency)
MaxConcurrency == 2

\* a/a.html, b/a.htm, a.php, b.html
RenderUrls ==
  { [stem |-> "a", ext |-> "html"], [stem |-> "a", ext |-> "htm"],
    [stem |-> "a", ext |-> "php"], [stem |-> "b", ext |-> "html"] }

\* the files an output directory can hold before the run: a.pdf, a-1.pdf, b.pdf
OldPdfs ==
  { [base |-> <<"a">>, i |-> 0], [base |-> <<"a">>, i |-> 1], [base |-> <<"b">>, i |-> 0] }

NoPath == [base |-> <<>>, i |-> 0]

\* the last segment without .html or .htm
filename_from_url(url) ==
  IF url.ext \in {"html", "htm"} THEN <<url.stem>> ELSE <<url.stem, url.ext>>

\* base.pdf, else the first base-i.pdf, i = 1, 2, ..., that does not exist
unique_pdf_path(dir, base) ==
  LET path(i) == [base |-> base, i |-> i]
  IN  IF path(0) \notin dir THEN path(0)
      ELSE path(CHOOSE i \in 1 .. (Cardinality(dir) + 1) :
                  /\ path(i) \notin dir
                  /\ \A j \in 1 .. (i - 1) : path(j) \in dir)

InitRender ==
  /\ MergeInit
  /\ impl = "pipeline"
  /\ entry = "md"
  /\ BatchIdle
  /\ DocIdle
  /\ ColsIdle
  /\ TableIdle
  /\ HeadIdle
  /\ StagesIdle
  /\ DagIdle
  /\ \E n \in 1 .. MaxRenders : render_urls \in [1 .. n -> RenderUrls]
  /\ sem \in 1 .. MaxConcurrency
  /\ render_pc = [t \in DOMAIN render_urls |-> "created"]
  /\ pdf_path = [t \in DOMAIN render_urls |-> NoPath]
  /\ existed \in SUBSET OldPdfs
  /\ out_dir = [p \in existed |-> 0]
  /\ log = [t \in DOMAIN render_urls |-> "none"]

\* async with sem
Acquire(t) ==
  /\ render_pc[t] = "created"
  /\ sem > 0
  /\ sem' = sem - 1
  /\ render_pc' = [render_pc EXCEPT ![t] = "goto"]
  /\ UNCHANGED <<render_urls, pdf_path, out_dir, existed, log>>
  /\ UNCHANGED <<impl, files, pc, locals, result, ghosts, runvars>>
  /\ UNCHANGED <<entry, batchvars, docvars, colvars, tablevars, headvars, stagevars, dagvars>>

\* new_page, goto (twice at most), add_style_tag, fonts, emulate_media: done,
\* or an exception that render_one reports
Goto(t) ==
  /\ render_pc[t] = "goto"
  /\ \E loaded \in BOOLEAN :
       /\ render_pc' = [render_pc EXCEPT ![t] = IF loaded THEN "loaded" ELSE "closing"]
       /\ log' = IF loaded THEN log ELSE [log EXCEPT ![t] = "FAIL"]
  /\ UNCHANGED <<render_urls, sem, pdf_path, out_dir, existed>>
  /\ UNCHANGED <<impl, files, pc, locals, result, ghosts, runvars>>
  /\ UNCHANGED <<entry, batchvars, docvars, colvars, tablevars, headvars, stagevars, dagvars>>

\* base = filename_from_url(url); pdf_path = unique_pdf_path(out_dir, base);
\* page.pdf is called and awaited
UniquePath(t) ==
  /\ render_pc[t] = "loaded"
  /\ pdf_path' = [pdf_path EXCEPT
                    ![t] = unique_pdf_path(DOMAIN out_dir, filename_from_url(render_urls[t]))]
  /\ render_pc' = [render_pc EXCEPT ![t] = "pdf"]
  /\ UNCHANGED <<render_urls, sem, out_dir, existed, log>>
  /\ UNCHANGED <<impl, files, pc, locals, result, ghosts, runvars>>
  /\ UNCHANGED <<entry, batchvars, docvars, colvars, tablevars, headvars, stagevars, dagvars>>

\* page.pdf returns, the file written at pdf_path, or raises
Pdf(t) ==
  /\ render_pc[t] = "pdf"
  /\ \E saved \in BOOLEAN :
       /\ out_dir' =
            IF saved
            THEN [p \in DOMAIN out_dir \cup {pdf_path[t]} |->
                    IF p = pdf_path[t] THEN t ELSE out_dir[p]]
            ELSE out_dir
       /\ log' = [log EXCEPT ![t] = IF saved THEN "OK" ELSE "FAIL"]
  /\ render_pc' = [render_pc EXCEPT ![t] = "closing"]
  /\ UNCHANGED <<render_urls, sem, pdf_path, existed>>
  /\ UNCHANGED <<impl, files, pc, locals, result, ghosts, runvars>>
  /\ UNCHANGED <<entry, batchvars, docvars, colvars, tablevars, headvars, stagevars, dagvars>>

\* finally: page.close(); the semaphore is left
Close(t) ==
  /\ render_pc[t] = "closing"
  /\ sem' = sem + 1
  /\ render_pc' = [render_pc EXCEPT ![t] = "done"]
  /\ UNCHANGED <<render_urls, pdf_path, out_dir, existed, log>>
  /\ UNCHANGED <<impl, files, pc, locals, result, ghosts, runvars>>
  /\ UNCHANGED <<entry, batchvars, docvars, colvars, tablevars, headvars, stagevars, dagvars>>

NextRender ==
  \E t \in DOMAIN render_urls :
     Acquire(t) \/ Goto(t) \/ UniquePath(t) \/ Pdf(t) \/ Close(t)

SpecRender == InitRender /\ [][NextRender]_vars

\* the tasks that printed [OK]
Rendered == { t \in DOMAIN log : log[t] = "OK" }

\* C29: concurrent renders never write to the same PDF path: every
\* successful render wrote to a path distinct from the path of every other
\* successful render of the run and from every PDF that already existed, so
\* no rendered PDF is overwritten (each file is still the one its task wrote).
C29_DistinctPaths ==
  \A t \in Rendered :
     /\ pdf_path[t] \notin existed
     /\ \A u \in Rendered \ {t} : pdf_path[u] # pdf_path[t]
     /\ out_dir[pdf_path[t]] = t

=============================================================================
